---- MODULE Spec2Model ----
(***************************************************************************)
(* homebridge-solis-cloud-api: the SolisCloudPlatform dynamic platform of  *)
(* src/index.js (lines 1-339): configuration check, accessory              *)
(* reconciliation, the polling loop, response validation, normalisation    *)
(* and the publication of values into LightSensor services.                *)
(***************************************************************************)
EXTENDS Integers, Sequences, FiniteSets, TLC

(***************************************************************************)
(* JavaScript numbers.  A finite number is kept in fixed point, counted in *)
(* steps of 0.00005 (half of the 0.0001 floor of updateLightSensor), so    *)
(* 1.0 is UnitsPerOne steps; NaN and the two infinities are values of      *)
(* their own, exactly as Number() can produce them.                        *)
(***************************************************************************)
UnitsPerOne == 20000

NaN == [k |-> "nan", v |-> 0]
Fin(v) == [k |-> "fin", v |-> v]
Inf(s) == [k |-> "inf", v |-> s]

\* A whole number n as a JavaScript number.
Whole(n) == Fin(n * UnitsPerOne)

IsNaN(x) == x.k = "nan"
IsFinite(x) == x.k = "fin"

\* x < y of two JavaScript numbers: false as soon as one is NaN.
JsLess(x, y) ==
    CASE x.k = "nan" \/ y.k = "nan" -> FALSE
      [] x.k = "fin" /\ y.k = "fin" -> x.v < y.v
      [] x.k = "inf" /\ y.k = "fin" -> x.v < 0
      [] x.k = "fin" /\ y.k = "inf" -> y.v > 0
      [] OTHER -> x.v < y.v

\* Math.abs
JsAbs(x) ==
    CASE x.k = "fin" -> Fin(IF x.v < 0 THEN -x.v ELSE x.v)
      [] x.k = "inf" -> Inf(1)
      [] OTHER -> NaN

\* Math.max and Math.min: NaN as soon as one argument is NaN.
JsMax(x, y) ==
    IF IsNaN(x) \/ IsNaN(y) THEN NaN ELSE IF JsLess(x, y) THEN y ELSE x

JsMin(x, y) ==
    IF IsNaN(x) \/ IsNaN(y) THEN NaN ELSE IF JsLess(y, x) THEN y ELSE x

\* x * 1000 (the kW to W scaling of the data map).
KiloFactor == 1000

Times1000(x) == IF x.k = "fin" THEN Fin(x.v * KiloFactor) ELSE x

\* x / 1000
Div1000(x) == IF x.k = "fin" THEN Fin(x.v \div KiloFactor) ELSE x

\* Math.round: the nearest whole number, halves rounded up.
JsRound(x) ==
    IF x.k = "fin"
    THEN Fin(((2 * x.v + UnitsPerOne) \div (2 * UnitsPerOne)) * UnitsPerOne)
    ELSE x

(***************************************************************************)
(* JavaScript values as JSON.parse delivers them in a response field.      *)
(***************************************************************************)
Undefined == [t |-> "undefined", n |-> NaN, s |-> ""]
Null == [t |-> "null", n |-> NaN, s |-> ""]
Bool(b) == [t |-> "boolean", n |-> NaN, s |-> IF b THEN "true" ELSE "false"]
Num(x) == [t |-> "number", n |-> x, s |-> ""]
Str(s) == [t |-> "string", n |-> NaN, s |-> s]
Obj == [t |-> "object", n |-> NaN, s |-> ""]

\* The numeric value of a string, for the strings the model uses.
StringToNumber(s) ==
    CASE s = "" -> Fin(0)
      [] s = "0" -> Fin(0)
      [] s = "1.5" -> Fin(30000)
      [] s = "-0.4" -> Fin(-8000)
      [] s = "Infinity" -> Inf(1)
      [] s = "-Infinity" -> Inf(-1)
      [] OTHER -> NaN

\* Number(x)
ToNumber(x) ==
    CASE x.t = "undefined" -> NaN
      [] x.t = "null" -> Fin(0)
      [] x.t = "boolean" -> IF x.s = "true" THEN Whole(1) ELSE Fin(0)
      [] x.t = "number" -> x.n
      [] x.t = "string" -> StringToNumber(x.s)
      [] OTHER -> NaN

\* !!x
Truthy(x) ==
    CASE x.t = "undefined" -> FALSE
      [] x.t = "null" -> FALSE
      [] x.t = "boolean" -> x.s = "true"
      [] x.t = "number" -> ~(IsNaN(x.n) \/ x.n = Fin(0))
      [] x.t = "string" -> x.s # ""
      [] OTHER -> TRUE

(***************************************************************************)
(* The normaliser of updateAllSensors.                                     *)
(***************************************************************************)
\* const safe = (n, fallback = 0) => { const val = Number(n); return isNaN(val) ? fallback : val; }
safe(n, fallback) ==
    LET val == ToNumber(n)
    IN  IF IsNaN(val) THEN fallback ELSE val

\* Variant of gridImport without Math.abs.
gridImportSigned(psum) ==
    IF JsLess(ToNumber(psum), Fin(0))
    THEN Times1000(safe(psum, Fin(0)))
    ELSE Fin(0)

\* r.psum < 0 ? Math.abs(safe(r.psum)) * 1000 : 0
gridImport(psum) ==
    IF JsLess(ToNumber(psum), Fin(0))
    THEN Times1000(JsAbs(safe(psum, Fin(0))))
    ELSE Fin(0)

\* Variant of gridExport without the sign test.
gridExportUnguarded(psum) == Times1000(safe(psum, Fin(0)))

\* r.psum > 0 ? safe(r.psum) * 1000 : 0
gridExport(psum) ==
    IF JsLess(Fin(0), ToNumber(psum))
    THEN Times1000(safe(psum, Fin(0)))
    ELSE Fin(0)

\* Variant of dataMap that takes pvPower from the batteryPower field.
dataMapPowerFromBattery(r) ==
    [ pvPower |-> Times1000(safe(r.batteryPower, Fin(0))),
      batteryPower |-> Times1000(safe(r.batteryPower, Fin(0))),
      batteryPercent |-> safe(r.batteryPercent, Fin(0)),
      gridImport |-> gridImport(r.psum),
      gridExport |-> gridExport(r.psum),
      houseLoad |-> Times1000(safe(r.familyLoadPower, Fin(0))),
      dayPvEnergy |-> safe(r.dayEnergy, Fin(0)),
      monthPvEnergy |-> safe(r.monthEnergy, Fin(0)),
      yearPvEnergy |-> safe(r.yearEnergy, Fin(0)),
      totalPvEnergy |-> safe(r.allEnergy, Fin(0)),
      dayGridPurchased |-> safe(r.gridPurchasedDayEnergy, Fin(0)),
      dayGridSold |-> safe(r.gridSellDayEnergy, Fin(0)),
      dayHouseLoadEnergy |-> safe(r.homeLoadTodayEnergy, Fin(0)) ]

\* The data map built from the first record r.
dataMap(r) ==
    [ pvPower |-> Times1000(safe(r.power, Fin(0))),
      batteryPower |-> Times1000(safe(r.batteryPower, Fin(0))),
      batteryPercent |-> safe(r.batteryPercent, Fin(0)),
      gridImport |-> gridImport(r.psum),
      gridExport |-> gridExport(r.psum),
      houseLoad |-> Times1000(safe(r.familyLoadPower, Fin(0))),
      dayPvEnergy |-> safe(r.dayEnergy, Fin(0)),
      monthPvEnergy |-> safe(r.monthEnergy, Fin(0)),
      yearPvEnergy |-> safe(r.yearEnergy, Fin(0)),
      totalPvEnergy |-> safe(r.allEnergy, Fin(0)),
      dayGridPurchased |-> safe(r.gridPurchasedDayEnergy, Fin(0)),
      dayGridSold |-> safe(r.gridSellDayEnergy, Fin(0)),
      dayHouseLoadEnergy |-> safe(r.homeLoadTodayEnergy, Fin(0)) ]

(***************************************************************************)
(* The metric registry of the constructor.                                 *)
(***************************************************************************)
metrics ==
    << [name |-> "PV Power Watts", idTag |-> "pvPower", graph |-> TRUE],
       [name |-> "Battery Power Watts", idTag |-> "batteryPower", graph |-> TRUE],
       [name |-> "Battery Percentage", idTag |-> "batteryPercent", graph |-> TRUE],
       [name |-> "Grid Import Watts", idTag |-> "gridImport", graph |-> TRUE],
       [name |-> "Grid Export Watts", idTag |-> "gridExport", graph |-> TRUE],
       [name |-> "House Load Watts", idTag |-> "houseLoad", graph |-> TRUE],
       [name |-> "PV Today Energy kWh", idTag |-> "dayPvEnergy", graph |-> FALSE],
       [name |-> "PV Month Energy kWh", idTag |-> "monthPvEnergy", graph |-> FALSE],
       [name |-> "PV Year Energy kWh", idTag |-> "yearPvEnergy", graph |-> FALSE],
       [name |-> "PV Total Energy kWh", idTag |-> "totalPvEnergy", graph |-> FALSE],
       [name |-> "Grid Purchased Today kWh", idTag |-> "dayGridPurchased", graph |-> FALSE],
       [name |-> "Grid Sold Today kWh", idTag |-> "dayGridSold", graph |-> FALSE],
       [name |-> "House Load Today kWh", idTag |-> "dayHouseLoadEnergy", graph |-> FALSE] >>

MetricIndex == 1..Len(metrics)

(***************************************************************************)
(* Identifiers.  api.hap.uuid.generate is a hash of its argument: the      *)
(* model keeps the hashed string itself, as the parts the template joins,  *)
(* so that two identifiers are equal exactly when the strings are.         *)
(***************************************************************************)
uuidGenerate(str) == str

\* initialiseAccessories: api.hap.uuid.generate(`solis-${this.deviceId}-${metric.idTag}`)
reconcilerUuid(deviceId, idTag) == uuidGenerate(<<"solis", deviceId, idTag>>)

\* Variant of publisherUuid that joins the parts in another order.
publisherUuidSwapped(deviceId, idTag) == uuidGenerate(<<"solis", idTag, deviceId>>)

\* updateLightSensor: api.hap.uuid.generate(`solis-${this.deviceId}-${metric.idTag}`)
publisherUuid(deviceId, idTag) == uuidGenerate(<<"solis", deviceId, idTag>>)

(***************************************************************************)
(* Accessories and their services, as the host keeps them.  A service is   *)
(* [type, subtype, name, value, serial]: value is the                      *)
(* CurrentAmbientLightLevel of a LightSensor, serial the SerialNumber of   *)
(* the AccessoryInformation service.  An accessory is [UUID, displayName,  *)
(* services, logging, historyService]: logging is context.logging[idTag]   *)
(* || 0 for the accessory's own metric, the only key the platform reads    *)
(* or writes; a missing context or entry reads as 0, as the code reads it. *)
(***************************************************************************)
NoSubtype == ""

\* The value a new LightSensor service holds: the characteristic's minimum.
LightDefault == Fin(2)

InformationService(name, serial) ==
    [type |-> "AccessoryInformation", subtype |-> NoSubtype, name |-> name,
     value |-> Fin(0), serial |-> serial]

LightSensorService(name, subtype, value) ==
    [type |-> "LightSensor", subtype |-> subtype, name |-> name,
     value |-> value, serial |-> <<>>]

OtherService(type, name, subtype) ==
    [type |-> type, subtype |-> subtype, name |-> name,
     value |-> Fin(0), serial |-> <<>>]

\* new this.api.platformAccessory(name, uuid): only the information service.
platformAccessory(name, uuid) ==
    [UUID |-> uuid, displayName |-> name,
     services |-> << InformationService(name, <<>>) >>,
     logging |-> Fin(0), historyService |-> FALSE]

\* The least member of a set of indexes, or 0 when there is none.
firstOf(hits) ==
    IF hits = {} THEN 0 ELSE CHOOSE i \in hits : \A j \in hits : i <= j

\* accessory.getServiceByUUIDAndSubType(type, subtype): index, or 0.
getServiceByUUIDAndSubType(accessory, type, subtype) ==
    firstOf({ i \in 1..Len(accessory.services) :
                /\ accessory.services[i].type = type
                /\ accessory.services[i].subtype = subtype })

\* accessory.getService(type): the first service of the type; index, or 0.
getService(accessory, type) ==
    firstOf({ i \in 1..Len(accessory.services) : accessory.services[i].type = type })

\* accessory.removeService(service)
removeService(accessory, i) ==
    [accessory EXCEPT !.services =
        SubSeq(accessory.services, 1, i - 1)
            \o SubSeq(accessory.services, i + 1, Len(accessory.services))]

\* accessory.addService(Service.LightSensor, name, subtype)
addService(accessory, name, subtype) ==
    [accessory EXCEPT !.services =
        Append(accessory.services, LightSensorService(name, subtype, LightDefault))]

\* Map.set
MapSet(map, key, value) ==
    [k \in (DOMAIN map) \cup {key} |-> IF k = key THEN value ELSE map[k]]

\* Map.delete of every key in keys
MapDelete(map, keys) == [k \in (DOMAIN map) \ keys |-> map[k]]

\* Variant of createAccessory that registers the new accessory a second time.
createAccessoryTwice(st, deviceId, metric, uuid) ==
    LET shell == platformAccessory(metric.name, uuid)
        described == [shell EXCEPT !.services =
                        << InformationService(metric.name, <<deviceId, metric.idTag>>) >>]
        accessory == addService(described, metric.name, metric.idTag)
    IN  [st EXCEPT !.accessories = MapSet(st.accessories, uuid, accessory),
                   !.registered = Append(Append(st.registered, uuid), uuid),
                   !.hostRegistered = st.hostRegistered \cup {uuid}]

(***************************************************************************)
(* ensureAccessory(metric, uuid) on the platform state st =                *)
(* [accessories, registered, unregistered, hostRegistered]: the accessory  *)
(* map, the calls made to registerPlatformAccessories and                  *)
(* unregisterPlatformAccessories, and the host's registered set.           *)
(***************************************************************************)
\* 1. the accessory does not exist: create, describe, attach, register
createAccessory(st, deviceId, metric, uuid) ==
    LET shell == platformAccessory(metric.name, uuid)
        described == [shell EXCEPT !.services =
                        << InformationService(metric.name, <<deviceId, metric.idTag>>) >>]
        accessory == addService(described, metric.name, metric.idTag)
    IN  [st EXCEPT !.accessories = MapSet(st.accessories, uuid, accessory),
                   !.registered = Append(st.registered, uuid),
                   !.hostRegistered = st.hostRegistered \cup {uuid}]

\* Variant of repairAccessory that replaces the service even when it is there.
repairAccessoryAlways(st, metric, uuid) ==
    LET renamed == [st.accessories[uuid] EXCEPT !.displayName = metric.name]
        oldService == getService(renamed, "LightSensor")
        stripped == IF oldService # 0 THEN removeService(renamed, oldService) ELSE renamed
    IN  [st EXCEPT !.accessories =
            MapSet(st.accessories, uuid, addService(stripped, metric.name, metric.idTag))]

\* 2. the accessory exists: update details, repair the service if missing
repairAccessory(st, metric, uuid) ==
    LET renamed == [st.accessories[uuid] EXCEPT !.displayName = metric.name]
        existingService == getServiceByUUIDAndSubType(renamed, "LightSensor", metric.idTag)
        oldService == getService(renamed, "LightSensor")
        stripped == IF oldService # 0 THEN removeService(renamed, oldService) ELSE renamed
        accessory == IF existingService = 0
                     THEN addService(stripped, metric.name, metric.idTag)
                     ELSE renamed
    IN  [st EXCEPT !.accessories = MapSet(st.accessories, uuid, accessory)]

\* 3. FakeGato setup: only for a graphed metric, only if not yet there
setupHistory(st, metric, uuid) ==
    IF metric.graph /\ ~st.accessories[uuid].historyService
    THEN [st EXCEPT !.accessories[uuid].historyService = TRUE]
    ELSE st

ensureAccessory(st, deviceId, metric, uuid) ==
    LET ensured == IF uuid \notin DOMAIN st.accessories
                   THEN createAccessory(st, deviceId, metric, uuid)
                   ELSE repairAccessory(st, metric, uuid)
    IN  setupHistory(ensured, metric, uuid)

\* The first loop of initialiseAccessories, over metrics[1..n].
RECURSIVE ensureAll(_, _, _)
ensureAll(st, deviceId, n) ==
    IF n = 0
    THEN st
    ELSE LET metric == metrics[n]
         IN  ensureAccessory(ensureAll(st, deviceId, n - 1), deviceId, metric,
                             reconcilerUuid(deviceId, metric.idTag))

\* validUUIDs after the first loop
validUUIDs(deviceId) ==
    { reconcilerUuid(deviceId, metrics[i].idTag) : i \in MetricIndex }

\* Variant of removeObsolete that forgets the accessory without unregistering it.
removeObsoleteLocally(st, deviceId) ==
    LET obsolete == { u \in DOMAIN st.accessories : u \notin validUUIDs(deviceId) }
    IN  [st EXCEPT !.accessories = MapDelete(st.accessories, obsolete)]

\* The second loop: unregister and delete what is not among validUUIDs.
removeObsolete(st, deviceId) ==
    LET obsolete == { u \in DOMAIN st.accessories : u \notin validUUIDs(deviceId) }
    IN  [st EXCEPT !.accessories = MapDelete(st.accessories, obsolete),
                   !.unregistered = st.unregistered \cup obsolete,
                   !.hostRegistered = st.hostRegistered \ obsolete]

\* Variant of initialiseAccessories without the second loop.
initialiseAccessoriesKeepingAll(st, deviceId) ==
    ensureAll(st, deviceId, Len(metrics))

initialiseAccessories(st, deviceId) ==
    removeObsolete(ensureAll(st, deviceId, Len(metrics)), deviceId)

(***************************************************************************)
(* Reconciliation when a host operation throws.  Neither ensureAccessory   *)
(* nor initialiseAccessories catches: the exception leaves both and the    *)
(* didFinishLaunching handler.  point is the operation that throws when it *)
(* is called for the metric: "addService" or "FakeGato" (the constructor   *)
(* of the history service).  The result is [st, threw].                    *)
(***************************************************************************)
ThrowPoints == {"addService", "FakeGato"}

ensureAccessoryThrows(st, deviceId, metric, uuid, point) ==
    LET exists == uuid \in DOMAIN st.accessories
        renamed == [st.accessories[uuid] EXCEPT !.displayName = metric.name]
        oldService == getService(renamed, "LightSensor")
        stripped == IF oldService # 0 THEN removeService(renamed, oldService) ELSE renamed
        repairs == exists /\ getServiceByUUIDAndSubType(renamed, "LightSensor",
                                                        metric.idTag) = 0
        ensured == IF exists
                   THEN repairAccessory(st, metric, uuid)
                   ELSE createAccessory(st, deviceId, metric, uuid)
    IN  IF point = "addService"
        THEN IF ~exists
             \* thrown at line 132: the new accessory is neither registered nor stored
             THEN [st |-> st, threw |-> TRUE]
             ELSE IF repairs
             \* thrown at line 155: the stored accessory is renamed and stripped
             THEN [st |-> [st EXCEPT !.accessories[uuid] = stripped], threw |-> TRUE]
             ELSE [st |-> ensureAccessory(st, deviceId, metric, uuid), threw |-> FALSE]
        ELSE IF metric.graph /\ ~ensured.accessories[uuid].historyService
             \* thrown at line 166: the accessory is stored, without history
             THEN [st |-> ensured, threw |-> TRUE]
             ELSE [st |-> ensureAccessory(st, deviceId, metric, uuid), threw |-> FALSE]

\* initialiseAccessories when point throws for metrics[k]
initialiseAccessoriesThrows(st, deviceId, k, point) ==
    LET hit == ensureAccessoryThrows(ensureAll(st, deviceId, k - 1), deviceId, metrics[k],
                                     reconcilerUuid(deviceId, metrics[k].idTag), point)
    IN  IF hit.threw
        THEN hit
        ELSE [st |-> initialiseAccessories(st, deviceId), threw |-> FALSE]

(***************************************************************************)
(* The publisher.                                                          *)
(***************************************************************************)
\* 0.0001, the floor of updateLightSensor, and 100000, its ceiling.
LightFloor == 2
LightCeiling == 2000000000

\* getServiceBySubtype(accessory, Service.LightSensor, subtype): index, or 0.
\* subtypeAware: whether the host's accessory.getService honours (type, subtype).
getServiceBySubtype(accessory, subtype, subtypeAware) ==
    LET preferred == IF subtypeAware
                     THEN getServiceByUUIDAndSubType(accessory, "LightSensor", subtype)
                     ELSE getService(accessory, "LightSensor")
        found == getServiceByUUIDAndSubType(accessory, "LightSensor", subtype)
        lastResort == getService(accessory, "LightSensor")
    IN  IF preferred # 0 THEN preferred
        ELSE IF found # 0 THEN found
        ELSE lastResort

\* const parsed = isFinite(Number(value)) ? Number(value) : NaN;
\* const numeric = isFinite(parsed) ? parsed : 0.0001;
numericOf(value) == IF IsFinite(value) THEN value ELSE Fin(LightFloor)

\* Variant of safeValueOf with 100 for the ceiling.
safeValueOfPercent(numeric) == JsMin(JsMax(Fin(LightFloor), numeric), Whole(100))

\* const safeValue = Math.min(Math.max(0.0001, numeric), 100000);
safeValueOf(numeric) == JsMin(JsMax(Fin(LightFloor), numeric), Fin(LightCeiling))

\* Variant of safeUpdateWrites that calls updateValue every time.
safeUpdateAlways(service, value) == TRUE

\* safeUpdate: whether updateValue is called for the service's characteristic
safeUpdateWrites(service, value) == service.value # value

\* const entryTime = Math.round(dataTimestampMillis / 1000);
entryTimeOf(dataTimestampMillis) == JsRound(Div1000(dataTimestampMillis))

\* Variant of logsEntry that also logs an entry as old as the last logged one.
logsEntryNotOlder(accessory, metric, entryTime) ==
    /\ metric.graph
    /\ accessory.historyService
    /\ ~JsLess(entryTime, IF IsNaN(accessory.logging) THEN Fin(0) ELSE accessory.logging)

\* if (entryTime > lastTime), with lastTime = context.logging[idTag] || 0
logsEntry(accessory, metric, entryTime) ==
    /\ metric.graph
    /\ accessory.historyService
    /\ JsLess(IF IsNaN(accessory.logging) THEN Fin(0) ELSE accessory.logging, entryTime)

\* Variant of updateLightSensor that leaves the value of a graphed metric alone
\* when the data is not newer than the last logged entry.
updateLightSensorWhenNewer(ps, deviceId, metric, value, dataTimestampMillis, subtypeAware) ==
    LET uuid == publisherUuid(deviceId, metric.idTag)
    IN  IF uuid \notin DOMAIN ps.accessories
        THEN ps
        ELSE
          LET accessory == ps.accessories[uuid]
              service == getServiceBySubtype(accessory, metric.idTag, subtypeAware)
          IN  IF service = 0
              THEN ps
              ELSE
                LET numeric == numericOf(value)
                    safeValue == safeValueOf(numeric)
                    entryTime == entryTimeOf(dataTimestampMillis)
                    logs == logsEntry(accessory, metric, entryTime)
                    writes == /\ safeUpdateWrites(accessory.services[service], safeValue)
                              /\ (metric.graph => logs)
                    published == [accessory EXCEPT
                                    !.services[service].value = IF writes THEN safeValue ELSE @,
                                    !.logging = IF logs THEN entryTime ELSE @]
                IN  [accessories |-> [ps.accessories EXCEPT ![uuid] = published],
                     updated |-> IF writes THEN ps.updated \cup {metric.idTag}
                                 ELSE ps.updated,
                     logged |-> IF logs
                                THEN ps.logged \cup
                                       {[idTag |-> metric.idTag, time |-> entryTime,
                                         lux |-> numeric]}
                                ELSE ps.logged]

\* Variant of updateLightSensor that attaches a new LightSensor service for
\* the value instead of updating the one the accessory has.
updateLightSensorAttaching(ps, deviceId, metric, value, dataTimestampMillis, subtypeAware) ==
    LET uuid == publisherUuid(deviceId, metric.idTag)
    IN  IF uuid \notin DOMAIN ps.accessories
        THEN ps
        ELSE
          LET accessory == ps.accessories[uuid]
              service == getServiceBySubtype(accessory, metric.idTag, subtypeAware)
          IN  IF service = 0
              THEN ps
              ELSE
                LET numeric == numericOf(value)
                    safeValue == safeValueOf(numeric)
                    writes == safeUpdateWrites(accessory.services[service], safeValue)
                    attached == IF writes
                                THEN [accessory EXCEPT !.services =
                                        Append(@, LightSensorService(metric.name,
                                                                     metric.idTag, safeValue))]
                                ELSE accessory
                IN  [accessories |-> [ps.accessories EXCEPT ![uuid] = attached],
                     updated |-> IF writes THEN ps.updated \cup {metric.idTag}
                                 ELSE ps.updated,
                     logged |-> ps.logged]

(***************************************************************************)
(* updateLightSensor(metric, value, dataTimestampMillis) on the publish    *)
(* state ps = [accessories, updated, logged]: the accessory map, the       *)
(* idTags for which updateValue was called and the history entries added.  *)
(***************************************************************************)
updateLightSensor(ps, deviceId, metric, value, dataTimestampMillis, subtypeAware) ==
    LET uuid == publisherUuid(deviceId, metric.idTag)
    IN  IF uuid \notin DOMAIN ps.accessories
        THEN ps
        ELSE
          LET accessory == ps.accessories[uuid]
              service == getServiceBySubtype(accessory, metric.idTag, subtypeAware)
          IN  IF service = 0
              THEN ps
              ELSE
                LET numeric == numericOf(value)
                    safeValue == safeValueOf(numeric)
                    writes == safeUpdateWrites(accessory.services[service], safeValue)
                    entryTime == entryTimeOf(dataTimestampMillis)
                    logs == logsEntry(accessory, metric, entryTime)
                    published == [accessory EXCEPT !.services[service].value = safeValue,
                                                   !.logging = IF logs THEN entryTime ELSE @]
                IN  [accessories |-> [ps.accessories EXCEPT ![uuid] = published],
                     updated |-> IF writes THEN ps.updated \cup {metric.idTag}
                                 ELSE ps.updated,
                     logged |-> IF logs
                                THEN ps.logged \cup
                                       {[idTag |-> metric.idTag, time |-> entryTime,
                                         lux |-> numeric]}
                                ELSE ps.logged]

\* Variant of publishAll that stops at the first metric without an accessory.
RECURSIVE publishAllUntilMissing(_, _, _, _, _, _)
publishAllUntilMissing(ps, deviceId, map, dataTimestampMillis, subtypeAware, n) ==
    IF n = 0
    THEN ps
    ELSE LET before == publishAllUntilMissing(ps, deviceId, map, dataTimestampMillis,
                                              subtypeAware, n - 1)
         IN  IF \E i \in 1..n :
                   publisherUuid(deviceId, metrics[i].idTag) \notin DOMAIN ps.accessories
             THEN before
             ELSE updateLightSensor(before, deviceId, metrics[n], map[metrics[n].idTag],
                                    dataTimestampMillis, subtypeAware)

\* Variant of publishAll that merges the snapshot into what was published
\* before: a metric whose value in the snapshot is 0 keeps its earlier value.
RECURSIVE publishAllMerging(_, _, _, _, _, _)
publishAllMerging(ps, deviceId, map, dataTimestampMillis, subtypeAware, n) ==
    IF n = 0
    THEN ps
    ELSE LET before == publishAllMerging(ps, deviceId, map, dataTimestampMillis,
                                         subtypeAware, n - 1)
         IN  IF map[metrics[n].idTag] = Fin(0)
             THEN before
             ELSE updateLightSensor(before, deviceId, metrics[n], map[metrics[n].idTag],
                                    dataTimestampMillis, subtypeAware)

\* for (const metric of this.metrics) { ... updateLightSensor(...) }, over metrics[1..n]
RECURSIVE publishAll(_, _, _, _, _, _)
publishAll(ps, deviceId, map, dataTimestampMillis, subtypeAware, n) ==
    IF n = 0
    THEN ps
    ELSE updateLightSensor(
            publishAll(ps, deviceId, map, dataTimestampMillis, subtypeAware, n - 1),
            deviceId, metrics[n], map[metrics[n].idTag], dataTimestampMillis,
            subtypeAware)

(***************************************************************************)
(* Responses.  A response is [isNull, success, code, data]: data is        *)
(* "none" (no data member), "norecords" (data without records) or          *)
(* "records", and then records is the array; an array item is a record of  *)
(* fields, or null (isNull).                                               *)
(***************************************************************************)
\* Variant of invalidResponse without the success test.
invalidResponseIgnoresSuccess(response) ==
    \/ response.isNull
    \/ response.code # Str("0")
    \/ response.data # "records"
    \/ Len(response.records) = 0

\* Variant of invalidResponse without the code test.
invalidResponseIgnoresCode(response) ==
    \/ response.isNull
    \/ ~Truthy(response.success)
    \/ response.data # "records"
    \/ Len(response.records) = 0

\* Variant of invalidResponse that compares the code loosely (code != '0'),
\* so that the number 0 passes.
invalidResponseLooseCode(response) ==
    \/ response.isNull
    \/ ~Truthy(response.success)
    \/ response.code \notin {Str("0"), Num(Fin(0))}
    \/ response.data # "records"
    \/ Len(response.records) = 0

\* !response?.success || response.code !== '0' || !response.data?.records?.length
invalidResponse(response) ==
    \/ response.isNull
    \/ ~Truthy(response.success)
    \/ response.code # Str("0")
    \/ response.data # "records"
    \/ Len(response.records) = 0

(***************************************************************************)
(* Bounds of the model.                                                    *)
(***************************************************************************)
\* interval ticks modelled after the start-up cycle
MaxTicks == 2
\* Date.now() at load and its advance per timer tick, in milliseconds
ClockStartMs == 3000
TickStepMs == 1000

(***************************************************************************)
(* Configuration.                                                          *)
(***************************************************************************)
CredentialValues == {Undefined, Str(""), Str("key")}
DeviceIdValues == {Undefined, Str(""), Str("d1")}
IntervalValues == {Undefined, Num(Whole(5))}

Configs ==
    [apiKey : CredentialValues, apiSecret : CredentialValues,
     deviceId : DeviceIdValues, apiInterval : IntervalValues]

\* Variant of configMissing that does not look at the secret.
configMissingIgnoresSecret(cfg) == ~Truthy(cfg.apiKey) \/ ~Truthy(cfg.deviceId)

\* if (!this.apiKey || !this.apiSecret || !this.deviceId)
configMissing(cfg) ==
    ~Truthy(cfg.apiKey) \/ ~Truthy(cfg.apiSecret) \/ ~Truthy(cfg.deviceId)

\* this.apiInterval = this.config.apiInterval || 300, in whole seconds
DefaultInterval == 300

apiIntervalOf(cfg) ==
    IF Truthy(cfg.apiInterval)
    THEN ToNumber(cfg.apiInterval).v \div UnitsPerOne
    ELSE DefaultInterval

\* setInterval(..., this.apiInterval * 1000)
intervalMs(cfg) == apiIntervalOf(cfg) * KiloFactor

\* fetch(..., { timeout: 10000 })
RequestTimeoutMs == 10000

\* A tick can find a request pending only if the interval does not exceed
\* the time a request may take.
canOverlap(cfg) == intervalMs(cfg) <= RequestTimeoutMs

(***************************************************************************)
(* The host's cache at load: accessories this or an earlier version of     *)
(* the plugin registered.                                                  *)
(***************************************************************************)
cachedValid ==
    [UUID |-> <<"solis", "d1", "pvPower">>, displayName |-> "PV Power Watts",
     services |-> << InformationService("PV Power Watts", <<"d1", "pvPower">>),
                     LightSensorService("PV Power Watts", "pvPower", Whole(1500)) >>,
     logging |-> Whole(2), historyService |-> FALSE]

cachedObsolete ==
    [UUID |-> <<"solis", "d1", "dataTimestamp">>, displayName |-> "Data Timestamp",
     services |-> << InformationService("Data Timestamp", <<"d1", "dataTimestamp">>),
                     OtherService("StatelessProgrammableSwitch", "Data Timestamp",
                                  "dataTimestamp") >>,
     logging |-> Fin(0), historyService |-> FALSE]

cachedOtherDevice ==
    [UUID |-> <<"solis", "d2", "pvPower">>, displayName |-> "PV Power Watts",
     services |-> << InformationService("PV Power Watts", <<"d2", "pvPower">>),
                     LightSensorService("PV Power Watts", "pvPower", Whole(7)) >>,
     logging |-> Fin(0), historyService |-> FALSE]

cachedHumidity ==
    [UUID |-> <<"solis", "d1", "batteryPercent">>, displayName |-> "Battery %",
     services |-> << InformationService("Battery %", <<"d1", "batteryPercent">>),
                     OtherService("HumiditySensor", "Battery %", "batteryPercent") >>,
     logging |-> Fin(0), historyService |-> FALSE]

cachedStale ==
    [UUID |-> <<"solis", "d1", "gridImport">>, displayName |-> "Grid Import",
     services |-> << InformationService("Grid Import", <<"d1", "gridImport">>),
                     LightSensorService("Grid Import", "legacyA", Whole(3)),
                     LightSensorService("Grid Import", "legacyB", Whole(4)) >>,
     logging |-> Fin(0), historyService |-> FALSE]

\* The caches the model starts from: a fresh install, an upgrade that dropped
\* a metric, a changed device identifier, and services of an earlier shape.
HostCaches ==
    { {},
      {cachedValid, cachedObsolete},
      {cachedOtherDevice, cachedHumidity},
      {cachedStale, cachedValid},
      {cachedObsolete, cachedOtherDevice, cachedStale} }

(***************************************************************************)
(* Responses of the cloud.                                                 *)
(***************************************************************************)
Item(power, psum, percent, energy, timestamp) ==
    [isNull |-> FALSE, power |-> power, batteryPower |-> psum,
     batteryPercent |-> percent, psum |-> psum, familyLoadPower |-> power,
     dayEnergy |-> energy, monthEnergy |-> energy, yearEnergy |-> energy,
     allEnergy |-> energy, gridPurchasedDayEnergy |-> energy,
     gridSellDayEnergy |-> energy, homeLoadTodayEnergy |-> energy,
     dataTimestamp |-> timestamp]

NullItem ==
    [Item(Undefined, Undefined, Undefined, Undefined, Undefined) EXCEPT !.isNull = TRUE]

\* power 1.5, psum -0.4, batteryPercent 42, energies 5.2, dataTimestamp 2000
itemDay == Item(Num(Fin(30000)), Num(Fin(-8000)), Num(Whole(42)), Num(Fin(104000)),
                Num(Whole(2000)))
\* power 0, psum 0.4, batteryPercent 100, energies 0, dataTimestamp 9000
itemNight == Item(Num(Fin(0)), Num(Fin(8000)), Num(Whole(100)), Num(Fin(0)),
                  Num(Whole(9000)))
\* power "abc", psum absent, batteryPercent null, energies 100001, no dataTimestamp
itemOdd == Item(Str("abc"), Undefined, Null, Num(Whole(100001)), Undefined)
\* power 101, psum "Infinity", batteryPercent 150, energies -1, dataTimestamp "1.5"
itemHuge == Item(Num(Whole(101)), Str("Infinity"), Num(Whole(150)), Num(Whole(-1)),
                 Str("1.5"))

Items == {itemDay, itemNight, itemOdd, itemHuge}

Response(success, code, data, records) ==
    [isNull |-> FALSE, success |-> success, code |-> code, data |-> data,
     records |-> records]

Good(item) == Response(Bool(TRUE), Str("0"), "records", <<item>>)

NullResponse == [Good(itemDay) EXCEPT !.isNull = TRUE]

\* The responses the polling model draws from: every record above, and one
\* response for each way the guard or the first record can fail.
Responses ==
    { Good(i) : i \in Items }
    \cup { [Good(itemDay) EXCEPT !.success = Bool(FALSE)],
           [Good(itemDay) EXCEPT !.code = Num(Fin(0))],
           [Good(itemDay) EXCEPT !.records = <<>>],
           [Good(itemDay) EXCEPT !.records = <<NullItem>>] }

\* The responses the guard is applied to alone: every combination of a
\* success member, a code member and a data member.
GuardResponses ==
    { Response(success, code, shape[1], shape[2]) :
        success \in {Bool(TRUE), Bool(FALSE), Undefined, Null, Num(Whole(1)), Str("true")},
        code \in {Str("0"), Num(Fin(0)), Undefined, Str("1"), Str("")},
        shape \in { <<"none", <<>> >>, <<"norecords", <<>> >>, <<"records", <<>> >>,
                    <<"records", <<itemDay>> >>, <<"records", <<NullItem>> >>,
                    <<"records", <<itemNight, itemDay>> >> } }
    \cup { NullResponse }

(***************************************************************************)
(* State.                                                                  *)
(***************************************************************************)
VARIABLES
    hostAware,       \* whether the host's accessory.getService honours a subtype
    config,          \* this.config: apiKey, apiSecret, deviceId, apiInterval
    configErrors,    \* times "Missing required config" was logged
    handler,         \* whether a didFinishLaunching handler is installed
    hostCache,       \* the accessories the host restores at load
    delivered,       \* UUIDs already handed to configureAccessory
    launched,        \* whether the host has emitted didFinishLaunching
    accessories,     \* this.accessories: UUID -> accessory
    hostRegistered,  \* UUIDs the host holds for this platform
    registered,      \* UUIDs passed to registerPlatformAccessories, in order
    unregistered,    \* UUIDs passed to unregisterPlatformAccessories
    reconciled,      \* times initialiseAccessories has completed
    timerArmed,      \* whether setInterval has been called
    ticks,           \* interval ticks so far
    cycles,          \* invocations of updateAllSensors so far
    requests,        \* the requests handed to fetch, in order
    inflight,        \* requests whose outcome is still pending
    now,             \* Date.now(), in milliseconds
    last,            \* what the last completed cycle did
    probe            \* input and result of the last function applied alone

vars ==
    <<hostAware, config, configErrors, handler, hostCache, delivered, launched, accessories,
      hostRegistered, registered, unregistered, reconciled, timerArmed, ticks,
      cycles, requests, inflight, now, last, probe>>

platformVars ==
    <<hostAware, config, configErrors, handler, hostCache, delivered, launched, accessories,
      hostRegistered, registered, unregistered, reconciled, timerArmed, ticks,
      cycles, requests, inflight, now, last>>

EmptyMap == [k \in {} |-> 0]

NoCycle ==
    [cause |-> "none", outcome |-> "none", response |-> NullResponse,
     updated |-> {}, logged |-> {}]

NoProbe == [op |-> "none"]

\* The state after the constructor has run on cfg.
constructed(cfg, cache) ==
    /\ config = cfg
    /\ configErrors = (IF configMissing(cfg) THEN 1 ELSE 0)
    /\ handler = ~configMissing(cfg)
    /\ hostCache = cache
    /\ delivered = {}
    /\ launched = FALSE
    /\ accessories = EmptyMap
    /\ hostRegistered = { a.UUID : a \in cache }
    /\ registered = <<>>
    /\ unregistered = {}
    /\ reconciled = 0
    /\ timerArmed = FALSE
    /\ ticks = 0
    /\ cycles = 0
    /\ requests = <<>>
    /\ inflight = 0
    /\ now = ClockStartMs
    /\ last = NoCycle

\* Whether accessory.getService honours a subtype is the host's affair, the
\* same for a whole run.  The two behaviours differ only for an accessory with
\* more than one LightSensor service, which only a restored accessory can be.
hostFlavours(cache) ==
    IF \E a \in cache :
          Cardinality({ i \in 1..Len(a.services) : a.services[i].type = "LightSensor" }) > 1
    THEN BOOLEAN
    ELSE {FALSE}

Init ==
    /\ \E cfg \in Configs, cache \in HostCaches :
         /\ constructed(cfg, cache)
         /\ hostAware \in hostFlavours(cache)
    /\ probe = NoProbe


(***************************************************************************)
(* The cloud client.                                                       *)
(***************************************************************************)
DefaultBaseUrl == "https://www.soliscloud.com:13333"
StationDetailList == "/v1/api/stationDetailList"

\* Variant of solisRequest that takes the time again for the Date header
\* instead of sending the timestamp it signed.
solisRequestDateAgain(cfg, path, bodyObject, nowMs) ==
    LET body == <<"JSON", bodyObject>>
        contentMD5 == <<"md5-base64", body>>
        date == <<"UTC", nowMs>>
        signStr == <<"POST", contentMD5, "application/json", date, path>>
        sign == <<"hmac-sha1-base64", cfg.apiSecret, signStr>>
    IN  [url |-> <<DefaultBaseUrl, path>>,
         method |-> "POST",
         contentType |-> "application/json;charset=UTF-8",
         authorization |-> <<"API", cfg.apiKey, sign>>,
         contentMD5 |-> contentMD5,
         date |-> <<"UTC", nowMs + 1>>,
         body |-> body,
         timeout |-> RequestTimeoutMs]

\* solisRequest up to the call of fetch: the request handed to fetch.
\* Hashes and the keyed hash are kept as what they were computed from.
solisRequest(cfg, path, bodyObject, nowMs) ==
    LET body == <<"JSON", bodyObject>>
        contentMD5 == <<"md5-base64", body>>
        date == <<"UTC", nowMs>>
        signStr == <<"POST", contentMD5, "application/json", date, path>>
        sign == <<"hmac-sha1-base64", cfg.apiSecret, signStr>>
    IN  [url |-> <<DefaultBaseUrl, path>>,
         method |-> "POST",
         contentType |-> "application/json;charset=UTF-8",
         authorization |-> <<"API", cfg.apiKey, sign>>,
         contentMD5 |-> contentMD5,
         date |-> date,
         body |-> body,
         timeout |-> RequestTimeoutMs]

\* Buffer.from(this.apiSecret, "utf8") throws unless the secret is a string.
canSign(cfg) == cfg.apiSecret.t = "string"

Failed(cause) ==
    [cause |-> cause, outcome |-> "failed", response |-> NullResponse,
     updated |-> {}, logged |-> {}]

\* updateAllSensors up to its await: one request is signed and handed to fetch,
\* or signing throws and the error is caught and logged.
startCycle ==
    /\ cycles' = cycles + 1
    /\ IF canSign(config)
       THEN /\ requests' = Append(requests,
                   solisRequest(config, StationDetailList,
                                [deviceId |-> config.deviceId], now'))
            /\ inflight' = inflight + 1
            /\ last' = last
       ELSE /\ requests' = requests
            /\ inflight' = inflight
            /\ last' = Failed("sign")

\* Variant of startPollingLoop that only arms the timer.
startPollingLoopTimerOnly ==
    /\ timerArmed' = TRUE
    /\ UNCHANGED <<cycles, requests, inflight, last>>

\* startPollingLoop: updateAllSensors(), then setInterval
startPollingLoop ==
    /\ startCycle
    /\ timerArmed' = TRUE

(***************************************************************************)
(* updateAllSensors after its await, on the outcome of the request:        *)
(* cause is "network", "timeout", "http", "json" (fetch or res.json()      *)
(* rejected, or res.ok was false) or "response" (a parsed body).           *)
(***************************************************************************)
cycleResult(acc, deviceId, cause, response, nowMs, subtypeAware) ==
    LET none == [accessories |-> acc, updated |-> {}, logged |-> {}]
    IN  IF cause # "response"
        THEN [pass |-> none, outcome |-> "failed"]
        ELSE IF invalidResponse(response)
        THEN [pass |-> none, outcome |-> "rejected"]
        ELSE IF response.records[1].isNull
        THEN [pass |-> none, outcome |-> "failed"]
        ELSE LET r == response.records[1]
                 dataTimestampMillis == safe(r.dataTimestamp, Fin(nowMs * UnitsPerOne))
             IN  [pass |-> publishAll(none, deviceId, dataMap(r), dataTimestampMillis,
                                      subtypeAware, Len(metrics)),
                  outcome |-> "published"]

\* Variant of finishCycle that sends the request again when the cycle failed.
finishCycleRetrying(cause, response) ==
    /\ LET res == cycleResult(accessories, config.deviceId.s, cause, response, now,
                            hostAware)
             retry == res.outcome = "failed" /\ Len(requests) <= MaxTicks + 1
         IN  /\ accessories' = res.pass.accessories
             /\ last' = [cause |-> cause, outcome |-> res.outcome, response |-> response,
                         updated |-> res.pass.updated, logged |-> res.pass.logged]
             /\ requests' = IF retry
                            THEN Append(requests,
                                        solisRequest(config, StationDetailList,
                                                     [deviceId |-> config.deviceId], now))
                            ELSE requests
             /\ inflight' = IF retry THEN inflight ELSE inflight - 1
    /\ UNCHANGED <<hostAware, config, configErrors, handler, hostCache, delivered, launched,
                   hostRegistered, registered, unregistered, reconciled, timerArmed,
                   ticks, cycles, now, probe>>

\* Variant of finishCycle in which a failed cycle escapes the handler and
\* takes the interval timer down with it.
finishCycleDisarming(cause, response) ==
    /\ inflight' = inflight - 1
    /\ LET res == cycleResult(accessories, config.deviceId.s, cause, response, now,
                            hostAware)
       IN  /\ accessories' = res.pass.accessories
           /\ last' = [cause |-> cause, outcome |-> res.outcome, response |-> response,
                       updated |-> res.pass.updated, logged |-> res.pass.logged]
           /\ timerArmed' = (res.outcome # "failed")
    /\ UNCHANGED <<hostAware, config, configErrors, handler, hostCache, delivered, launched,
                   hostRegistered, registered, unregistered, reconciled,
                   ticks, cycles, requests, now, probe>>

finishCycle(cause, response) ==
    /\ inflight' = inflight - 1
    /\ LET res == cycleResult(accessories, config.deviceId.s, cause, response, now,
                            hostAware)
         IN  /\ accessories' = res.pass.accessories
             /\ last' = [cause |-> cause, outcome |-> res.outcome, response |-> response,
                         updated |-> res.pass.updated, logged |-> res.pass.logged]
    /\ UNCHANGED <<hostAware, config, configErrors, handler, hostCache, delivered, launched,
                   hostRegistered, registered, unregistered, reconciled, timerArmed,
                   ticks, cycles, requests, now, probe>>

(***************************************************************************)
(* Actions.                                                                *)
(***************************************************************************)
\* The host restores one cached accessory: configureAccessory(accessory).
ConfigureAccessory ==
    /\ ~launched
    /\ \E a \in hostCache :
         /\ a.UUID \notin delivered
         /\ delivered' = delivered \cup {a.UUID}
         /\ accessories' = MapSet(accessories, a.UUID, a)
    /\ UNCHANGED <<hostAware, config, configErrors, handler, hostCache, launched, hostRegistered,
                   registered, unregistered, reconciled, timerArmed, ticks, cycles,
                   requests, inflight, now, last, probe>>

AllDelivered == delivered = { a.UUID : a \in hostCache }

\* Variant of DidFinishLaunching whose handler starts the polling loop and
\* leaves the accessories as the host restored them.
DidFinishLaunchingPollFirst ==
    /\ ~launched
    /\ AllDelivered
    /\ handler
    /\ launched' = TRUE
    /\ now' = now
    /\ startPollingLoop
    /\ UNCHANGED <<hostAware, config, configErrors, handler, hostCache, delivered, ticks, probe,
                   accessories, registered, unregistered, hostRegistered, reconciled>>

\* The host emits didFinishLaunching and the platform's handler runs.
DidFinishLaunching ==
    /\ ~launched
    /\ AllDelivered
    /\ handler
    /\ launched' = TRUE
    /\ LET st == initialiseAccessories(
                    [accessories |-> accessories, registered |-> registered,
                     unregistered |-> unregistered, hostRegistered |-> hostRegistered],
                    config.deviceId.s)
       IN  /\ accessories' = st.accessories
           /\ registered' = st.registered
           /\ unregistered' = st.unregistered
           /\ hostRegistered' = st.hostRegistered
    /\ reconciled' = reconciled + 1
    /\ now' = now
    /\ startPollingLoop
    /\ UNCHANGED <<hostAware, config, configErrors, handler, hostCache, delivered, ticks, probe>>

\* The host emits didFinishLaunching and nothing listens.
DidFinishLaunchingUnheard ==
    /\ ~launched
    /\ AllDelivered
    /\ ~handler
    /\ launched' = TRUE
    /\ UNCHANGED <<hostAware, config, configErrors, handler, hostCache, delivered, accessories,
                   hostRegistered, registered, unregistered, reconciled, timerArmed,
                   ticks, cycles, requests, inflight, now, last, probe>>

\* Variant of Tick whose cycle runs initialiseAccessories again before it
\* sends its request.
TickReconciling ==
    /\ timerArmed
    /\ ticks < MaxTicks
    /\ inflight = 0 \/ canOverlap(config)
    /\ ticks' = ticks + 1
    /\ now' = now + TickStepMs
    /\ startCycle
    /\ LET st == initialiseAccessories(
                    [accessories |-> accessories, registered |-> registered,
                     unregistered |-> unregistered, hostRegistered |-> hostRegistered],
                    config.deviceId.s)
       IN  /\ accessories' = st.accessories
           /\ registered' = st.registered
           /\ unregistered' = st.unregistered
           /\ hostRegistered' = st.hostRegistered
    /\ reconciled' = reconciled + 1
    /\ UNCHANGED <<hostAware, config, configErrors, handler, hostCache, delivered, launched,
                   timerArmed, probe>>

\* The interval timer fires: () => this.updateAllSensors()
Tick ==
    /\ timerArmed
    /\ ticks < MaxTicks
    /\ inflight = 0 \/ canOverlap(config)
    /\ ticks' = ticks + 1
    /\ now' = now + TickStepMs
    /\ startCycle
    /\ UNCHANGED <<hostAware, config, configErrors, handler, hostCache, delivered, launched,
                   accessories, hostRegistered, registered, unregistered, reconciled,
                   timerArmed, probe>>

\* fetch rejects: a network error, or the 10 s timeout.
FetchRejects ==
    /\ inflight > 0
    /\ \E cause \in {"network", "timeout"} : finishCycle(cause, NullResponse)

\* fetch resolves with res.ok false: solisRequest throws "HTTP <status>".
HttpNotOk ==
    /\ inflight > 0
    /\ finishCycle("http", NullResponse)

\* fetch resolves with res.ok true and res.json() rejects.
BodyNotJson ==
    /\ inflight > 0
    /\ finishCycle("json", NullResponse)

\* fetch resolves with res.ok true and res.json() resolves.
ResponseArrives ==
    /\ inflight > 0
    /\ \E response \in Responses : finishCycle("response", response)

Next ==
    \/ ConfigureAccessory
    \/ DidFinishLaunching
    \/ DidFinishLaunchingUnheard
    \/ Tick
    \/ FetchRejects
    \/ HttpNotOk
    \/ BodyNotJson
    \/ ResponseArrives

Spec == Init /\ [][Next]_vars

(***************************************************************************)
(* The normaliser and the publisher applied alone, to one input at a time. *)
(***************************************************************************)
FiniteValues ==
    { Fin(v) : v \in {-20000, -8000, -1, 0, 1, 2, 3, 8000, 30000, 2020000} }

\* Field values a response may carry; 1e999 in a JSON text parses to Infinity.
RawValues ==
    { Undefined, Null, Bool(TRUE), Bool(FALSE), Obj,
      Str(""), Str("abc"), Str("0"), Str("1.5"), Str("-0.4"), Str("Infinity"),
      Str("-Infinity"), Num(Inf(1)), Num(Inf(-1)) }
    \cup { Num(x) : x \in FiniteValues }

\* Values only a field that is not scaled by 1000 can carry in the model.
LargeValues == { Num(Whole(100000)), Num(Fin(LightCeiling + 1)), Num(Whole(100001)) }

Fallbacks == { Fin(0), Fin(ClockStartMs * UnitsPerOne) }

\* The metrics whose data map entry is the raw field times 1000.
ScaledTags == {"pvPower", "batteryPower", "gridImport", "gridExport", "houseLoad"}

PureConfig ==
    [apiKey |-> Str("key"), apiSecret |-> Str("key"), deviceId |-> Str("d1"),
     apiInterval |-> Undefined]

\* The accessory map of a fresh install after reconciliation.
FreshAccessories ==
    initialiseAccessories(
        [accessories |-> EmptyMap, registered |-> <<>>, unregistered |-> {},
         hostRegistered |-> {}], "d1").accessories

PureInit ==
    /\ constructed(PureConfig, {})
    /\ hostAware = FALSE
    /\ probe = NoProbe

\* safe(n, fallback)
ProbeSafe ==
    /\ probe = NoProbe
    /\ \E n \in RawValues \cup LargeValues, f \in Fallbacks :
         probe' = [op |-> "safe", n |-> n, f |-> f, out |-> safe(n, f)]
    /\ UNCHANGED platformVars

\* the gridImport and gridExport entries of the data map of a record
ProbeGrid ==
    /\ probe = NoProbe
    /\ \E psum \in RawValues :
         LET map == dataMap(Item(Undefined, psum, Undefined, Undefined, Undefined))
         IN  probe' = [op |-> "grid", psum |-> psum, gridImport |-> map.gridImport,
                       gridExport |-> map.gridExport]
    /\ UNCHANGED platformVars

\* one record field normalised by the data map and published by
\* updateLightSensor into the metric's accessory of a fresh install
ProbePublish ==
    /\ probe = NoProbe
    /\ \E i \in MetricIndex, aware \in BOOLEAN :
         \E raw \in IF metrics[i].idTag \in ScaledTags
                    THEN RawValues
                    ELSE RawValues \cup LargeValues :
           LET tag == metrics[i].idTag
               item == IF tag \in ScaledTags
                       THEN Item(raw, raw, Undefined, Undefined, Undefined)
                       ELSE Item(Undefined, Undefined, raw, raw, Undefined)
               map == dataMap(item)
               ps == updateLightSensor(
                        [accessories |-> FreshAccessories, updated |-> {}, logged |-> {}],
                        "d1", metrics[i], map[tag], Fin(now * UnitsPerOne), aware)
               stored == ps.accessories[publisherUuid("d1", tag)].services[2].value
           IN  probe' = [op |-> "publish", idTag |-> tag, raw |-> raw, v |-> map[tag],
                         stored |-> stored, updated |-> ps.updated]
    /\ UNCHANGED platformVars

\* updateAllSensors after its await, on one parsed response and a fresh install
ProbeCycle ==
    /\ probe = NoProbe
    /\ \E response \in GuardResponses :
         LET res == cycleResult(FreshAccessories, "d1", "response", response, now, FALSE)
         IN  probe' = [op |-> "cycle", response |-> response, outcome |-> res.outcome,
                       updated |-> res.pass.updated, accessories |-> res.pass.accessories]
    /\ UNCHANGED platformVars

\* Records whose fields are all finite numbers.
NumericItems ==
    { Item(Num(power), Num(psum), Num(Whole(42)), Num(power), Undefined) :
        power \in FiniteValues, psum \in FiniteValues }

\* updateAllSensors from the guard to the data map, on one accepted response
ProbeSnapshot ==
    /\ probe = NoProbe
    /\ \E item \in Items \cup NumericItems :
         LET response == Good(item)
         IN  /\ ~invalidResponse(response)
             /\ probe' = [op |-> "snapshot", r |-> response.records[1],
                           map |-> dataMap(response.records[1])]
    /\ UNCHANGED platformVars

\* The metrics whose accessory, or whose service, a publish pass may not find.
MissingTags == {"pvPower", "batteryPercent", "dayPvEnergy"}
BareTags == {"gridImport"}

\* The accessory map of a fresh install without the accessories of the metrics
\* in missing and without the LightSensor service of those in bare.
partialAccessories(missing, bare) ==
    LET kept == MapDelete(FreshAccessories, { publisherUuid("d1", tag) : tag \in missing })
    IN  [ uuid \in DOMAIN kept |->
            IF uuid \in { publisherUuid("d1", tag) : tag \in bare }
            THEN [kept[uuid] EXCEPT !.services = << kept[uuid].services[1] >>]
            ELSE kept[uuid] ]

\* updateAllSensors after its await, on an accessory map with gaps
ProbePass ==
    /\ probe = NoProbe
    /\ \E missing \in SUBSET MissingTags, bare \in SUBSET BareTags,
          item \in {itemDay, itemNight} :
         LET acc == partialAccessories(missing, bare)
             res == cycleResult(acc, "d1", "response", Good(item), now, FALSE)
         IN  probe' = [op |-> "pass", missing |-> missing, bare |-> bare, r |-> item,
                       before |-> acc, outcome |-> res.outcome,
                       updated |-> res.pass.updated, accessories |-> res.pass.accessories]
    /\ UNCHANGED platformVars

\* The platform state after the host has restored cache.
restored(cache) ==
    [accessories |-> [uuid \in { a.UUID : a \in cache } |->
                        CHOOSE a \in cache : a.UUID = uuid],
     registered |-> <<>>, unregistered |-> {},
     hostRegistered |-> { a.UUID : a \in cache }]

\* the didFinishLaunching handler when a host operation throws for one metric
ProbeReconcile ==
    /\ probe = NoProbe
    /\ \E cache \in HostCaches, k \in MetricIndex, point \in ThrowPoints :
         LET res == initialiseAccessoriesThrows(restored(cache), "d1", k, point)
         IN  probe' = [op |-> "reconcile", cache |-> cache, k |-> k, point |-> point,
                       threw |-> res.threw, st |-> res.st, polling |-> ~res.threw]
    /\ UNCHANGED platformVars

\* this.apiInterval = this.config.apiInterval || 300, whatever was configured
apiIntervalValue(raw) == IF Truthy(raw) THEN raw ELSE Num(Whole(DefaultInterval))

\* One millisecond in steps of a second.
StepsPerMs == UnitsPerOne \div KiloFactor

\* setInterval(..., this.apiInterval * 1000): the delay the timer uses, in
\* milliseconds.  The timer takes Number(delay) and replaces by 1 ms a delay
\* that is not within 1 .. 2^31 - 1 ms, NaN included; of the numbers kept here
\* only Infinity is above that range.
timerDelayMs(interval) ==
    LET n == ToNumber(interval)
    IN  IF IsFinite(n) /\ n.v >= StepsPerMs THEN n.v \div StepsPerMs ELSE 1

\* What a configuration may hold as apiInterval.
IntervalRawValues ==
    {Undefined, Null, Str(""), Str("1.5"), Str("abc"), Num(Inf(1))}
        \cup { Num(Whole(n)) : n \in {-5, 0, 1, 5, 60, 300, 900} }

\* By how much a timer may fire late, in milliseconds; it never fires early.
Lateness == {0, 7}

\* The polling loop is started with one configured interval: the delay
\* handed to the timer and the time from one scheduled cycle to the next.
ProbeTimer ==
    /\ probe = NoProbe
    /\ \E raw \in IntervalRawValues, late \in Lateness :
         LET delay == timerDelayMs(apiIntervalValue(raw))
         IN  probe' = [op |-> "timer", apiInterval |-> raw,
                       seconds |-> ToNumber(apiIntervalValue(raw)),
                       delayMs |-> delay, gapMs |-> delay + late]
    /\ UNCHANGED platformVars

\* What the dataTimestamp of a record may be: any field value, or a time in
\* epoch milliseconds.
TimestampValues == RawValues \cup { Num(Whole(2000)), Num(Whole(9000)) }

\* const dataTimestampMillis = safe(r.dataTimestamp, Date.now()), and the
\* history entry time derived from it, for one record at the time nowMs
ProbeTimestamp ==
    /\ probe = NoProbe
    /\ \E ts \in TimestampValues, nowMs \in {ClockStartMs, ClockStartMs + TickStepMs} :
         LET r == [itemDay EXCEPT !.dataTimestamp = ts]
             dataTimestampMillis == safe(r.dataTimestamp, Fin(nowMs * UnitsPerOne))
         IN  probe' = [op |-> "timestamp", r |-> r, now |-> Fin(nowMs * UnitsPerOne),
                       dataTimestampMillis |-> dataTimestampMillis,
                       entryTime |-> entryTimeOf(dataTimestampMillis)]
    /\ UNCHANGED platformVars

(***************************************************************************)
(* solisRequest after the call of fetch.  What fetch did is                *)
(* [kind |-> "rejected", type] (type "request-timeout" or "system") or     *)
(* [kind |-> "resolved", status, statusText, json, response]: json tells   *)
(* whether the body parses, response is what it parses to.  The result is  *)
(* an error thrown or the value returned.                                  *)
(***************************************************************************)
\* res.ok: the status is in the range 200-299
resOk(status) == status \in 200..299

\* Variant of solisRequestResult that parses the body whatever the status.
solisRequestResultAnyStatus(fetched) ==
    IF fetched.kind = "rejected"
    THEN [kind |-> "throw", name |-> "FetchError", type |-> fetched.type, message |-> <<>>,
          value |-> NullResponse]
    ELSE IF ~fetched.json
    THEN [kind |-> "throw", name |-> "FetchError", type |-> "invalid-json",
          message |-> <<>>, value |-> NullResponse]
    ELSE [kind |-> "return", name |-> "", type |-> "", message |-> <<>>,
          value |-> fetched.response]

\* await fetch(...); if (!res.ok) throw new Error(`HTTP ...`); return res.json();
solisRequestResult(fetched) ==
    IF fetched.kind = "rejected"
    THEN [kind |-> "throw", name |-> "FetchError", type |-> fetched.type, message |-> <<>>,
          value |-> NullResponse]
    ELSE IF ~resOk(fetched.status)
    THEN [kind |-> "throw", name |-> "Error", type |-> "",
          message |-> <<"HTTP", fetched.status, fetched.statusText>>,
          value |-> NullResponse]
    ELSE IF ~fetched.json
    THEN [kind |-> "throw", name |-> "FetchError", type |-> "invalid-json",
          message |-> <<>>, value |-> NullResponse]
    ELSE [kind |-> "return", name |-> "", type |-> "", message |-> <<>>,
          value |-> fetched.response]

\* The cause under which updateAllSensors goes on after its await.
causeOf(result) ==
    CASE result.kind = "return" -> "response"
      [] result.name = "Error" -> "http"
      [] result.type = "request-timeout" -> "timeout"
      [] result.type = "invalid-json" -> "json"
      [] OTHER -> "network"

\* What updateAllSensors writes to the log for the cycle: log.error with the
\* error's message in the catch, log.warn at the guard, log.debug at the end.
cycleLog(result, outcome) ==
    CASE outcome = "published" -> <<"debug", "Updated sensors">>
      [] outcome = "rejected" -> <<"warn", "Invalid data returned from API">>
      [] result.kind = "throw" -> <<"error", "updateAllSensors failed", result.name,
                                    result.type, result.message>>
      [] OTHER -> <<"error", "updateAllSensors failed", "TypeError", "", <<>>>>

\* The HTTP statuses a response of the cloud may carry, with their texts.
HttpStatuses ==
    { <<200, "OK">>, <<204, "No Content">>, <<299, "">>, <<300, "Multiple Choices">>,
      <<401, "Unauthorized">>, <<404, "Not Found">>, <<429, "Too Many Requests">>,
      <<500, "Internal Server Error">> }

FetchResults ==
    { [kind |-> "rejected", type |-> t, status |-> 0, statusText |-> "", json |-> FALSE,
       response |-> NullResponse] : t \in {"request-timeout", "system"} }
    \cup { [kind |-> "resolved", type |-> "", status |-> st[1], statusText |-> st[2],
             json |-> FALSE, response |-> NullResponse] : st \in HttpStatuses }
    \cup { [kind |-> "resolved", type |-> "", status |-> st[1], statusText |-> st[2],
             json |-> TRUE, response |-> response] :
                st \in HttpStatuses, response \in Responses }

\* One cycle on one outcome of fetch: solisRequest, then updateAllSensors
ProbeRequest ==
    /\ probe = NoProbe
    /\ \E fetched \in FetchResults :
         LET result == solisRequestResult(fetched)
             res == cycleResult(FreshAccessories, "d1", causeOf(result), result.value,
                                now, FALSE)
         IN  probe' = [op |-> "request", fetched |-> fetched, result |-> result,
                       outcome |-> res.outcome, updated |-> res.pass.updated,
                       accessories |-> res.pass.accessories,
                       log |-> cycleLog(result, res.outcome)]
    /\ UNCHANGED platformVars

PureNext == ProbeSafe \/ ProbeGrid \/ ProbePublish \/ ProbeCycle \/ ProbeSnapshot \/ ProbePass
    \/ ProbeReconcile \/ ProbeTimer \/ ProbeTimestamp \/ ProbeRequest

PureSpec == PureInit /\ [][PureNext]_vars

(***************************************************************************)
(* Properties.                                                             *)
(***************************************************************************)
\* The value of the LightSensor service of subtype idTag of the accessory
\* a, or NaN when a has no such service.
lightLevel(a, idTag) ==
    LET hits == { i \in 1..Len(a.services) :
                    a.services[i].type = "LightSensor" /\ a.services[i].subtype = idTag }
    IN  IF hits = {} THEN NaN ELSE a.services[CHOOSE i \in hits : TRUE].value

\* A response that carries no data record.
noRecord(response) ==
    response.isNull \/ response.data # "records" \/ Len(response.records) = 0

\* A cycle that ended as the specification calls failed: the request threw or
\* timed out, the status was not OK, the body did not parse, or the response
\* was one with a success member that is not truthy or with no data record.
claimedFailure(c) ==
    \/ c.cause \in {"sign", "network", "timeout", "http", "json"}
    \/ c.cause = "response" /\ (~Truthy(c.response.success) \/ noRecord(c.response))

\* C1: a cycle that fails (network error, timeout, non-OK status, unparseable
\* body, or a rejected response) calls updateValue on no characteristic, adds
\* no history entry and leaves every published value as the last successful
\* cycle left it.
C1_FailedCycleWritesNothing ==
    [][ (inflight' = inflight - 1 /\ claimedFailure(last'))
          => /\ accessories' = accessories
             /\ last'.updated = {}
             /\ last'.logged = {} ]_vars

\* A cycle has failed after an earlier one had published 42 percent.
C1_Witness ==
    /\ claimedFailure(last)
    /\ last.cause \in {"timeout", "response"}
    /\ cycles >= 2
    /\ publisherUuid("d1", "batteryPercent") \in DOMAIN accessories
    /\ lightLevel(accessories[publisherUuid("d1", "batteryPercent")], "batteryPercent")
          = Whole(42)

\* C2 (as stated): updateLightSensor called with the value v stores
\* min(max(0.0001, v), 100000), a value of [0.0001, 100000].
C2_StoresClampOfValue ==
    probe.op = "publish"
      => /\ probe.stored = JsMin(JsMax(Fin(LightFloor), probe.v), Fin(LightCeiling))
         /\ ~JsLess(probe.stored, Fin(LightFloor))
         /\ ~JsLess(Fin(LightCeiling), probe.stored)

\* The identifiers the metric registry gives the device.
registryIdentifiers(deviceId) ==
    { <<"solis", deviceId, metrics[i].idTag>> : i \in MetricIndex }

\* C3: once initialiseAccessories has returned, every restored accessory whose
\* identifier is not one of the registry's has been unregistered from the host
\* and is no longer in the accessory map.
C3_ObsoleteRetired ==
    reconciled > 0
      => \A a \in hostCache :
           a.UUID \notin registryIdentifiers(config.deviceId.s)
             => /\ a.UUID \in unregistered
                /\ a.UUID \notin hostRegistered
                /\ a.UUID \notin DOMAIN accessories

\* Reconciliation has run on a cache that held an accessory of no metric.
C3_Witness ==
    /\ reconciled > 0
    /\ cachedObsolete \in hostCache
    /\ cachedObsolete.UUID \in unregistered

\* C4: the identifier of a metric's accessory is a function of the device
\* identifier and the metric identifier alone, distinct metrics have distinct
\* identifiers, and the publisher looks a metric's accessory up under the
\* identifier the reconciler registered it under.
C4_SameIdentifier ==
    reconciled > 0
      => \A i \in MetricIndex :
           LET d == config.deviceId.s
               id == publisherUuid(d, metrics[i].idTag)
           IN  /\ id = reconcilerUuid(d, metrics[i].idTag)
               /\ id \in DOMAIN accessories
               /\ accessories[id].UUID = id
               /\ id \in hostRegistered
               /\ lightLevel(accessories[id], metrics[i].idTag) # NaN
               /\ \A j \in MetricIndex :
                    j # i => reconcilerUuid(d, metrics[j].idTag) # id

\* A cycle has published into the accessories the reconciler registered.
C4_Witness ==
    /\ reconciled > 0
    /\ Len(registered) = Len(metrics)
    /\ last.outcome = "published"
    /\ Cardinality(last.updated) = Len(metrics)

\* C5: initialiseAccessories is idempotent: run again on the state it left,
\* it registers nothing, unregisters nothing, changes no service of any
\* accessory and leaves the accessory map as it was.
C5_ReconcileIdempotent ==
    reconciled > 0
      => LET again == initialiseAccessories(
                         [accessories |-> accessories, registered |-> <<>>,
                          unregistered |-> {}, hostRegistered |-> hostRegistered],
                         config.deviceId.s)
         IN  /\ again.registered = <<>>
             /\ again.unregistered = {}
             /\ again.hostRegistered = hostRegistered
             /\ again.accessories = accessories

\* Reconciliation has run on a cache that made it create, repair and retire,
\* and a cycle has published since.
C5_Witness ==
    /\ reconciled > 0
    /\ hostCache = {cachedObsolete, cachedOtherDevice, cachedStale}
    /\ Len(registered) = Len(metrics) - 1
    /\ Cardinality(unregistered) = 2
    /\ last.outcome = "published"

\* A configuration value the specification calls missing or empty.
absent(x) == x = Undefined \/ x = Str("")

\* C6: when apiKey, apiSecret or deviceId is missing or empty, the constructor
\* logs one configuration error and registers no didFinishLaunching handler;
\* no reconciliation runs, no timer is armed, no cycle starts, and no request
\* is ever signed with an empty secret or sent.
C6_MissingConfigInert ==
    /\ (absent(config.apiKey) \/ absent(config.apiSecret) \/ absent(config.deviceId))
         => /\ configErrors = 1
            /\ ~handler
            /\ reconciled = 0
            /\ ~timerArmed
            /\ cycles = 0
            /\ requests = <<>>
            /\ inflight = 0
            /\ accessories \in [delivered -> hostCache]
    /\ \A i \in 1..Len(requests) :
         /\ ~absent(requests[i].authorization[2])
         /\ ~absent(requests[i].authorization[3][2])
         /\ ~absent(requests[i].body[2].deviceId)

\* The host has finished launching a platform configured with an empty secret.
C6_Witness ==
    /\ launched
    /\ config.apiSecret = Str("")
    /\ config.apiKey = Str("key")
    /\ config.deviceId = Str("d1")
    /\ hostCache # {}
    /\ AllDelivered

\* C7: no cycle starts before didFinishLaunching; the handler starts exactly
\* one cycle at once and arms the timer, and each timer tick starts exactly
\* one further cycle.
C7_OneCyclePerTick ==
    /\ cycles = IF launched /\ handler THEN 1 + ticks ELSE 0
    /\ timerArmed <=> (launched /\ handler)

\* The timer has ticked after the start-up cycle.
C7_Witness ==
    /\ launched
    /\ ticks >= 1
    /\ cycles = ticks + 1

\* What a cycle that publishes the record r leaves in every metric's accessory.
publishedFrom(acc, r) ==
    \A i \in MetricIndex :
      lightLevel(acc[publisherUuid("d1", metrics[i].idTag)], metrics[i].idTag)
        = safeValueOf(numericOf(dataMap(r)[metrics[i].idTag]))

\* C8 (as stated): a response is rejected exactly when its success member is
\* not true or it carries no data record; every other response is normalized
\* from its first record and published.
C8_RejectedIffNoSuccessOrNoRecord ==
    probe.op = "cycle"
      => /\ probe.outcome = "rejected"
              <=> (~Truthy(probe.response.success) \/ noRecord(probe.response))
         /\ (probe.outcome # "rejected" /\ ~probe.response.records[1].isNull)
              => /\ probe.outcome = "published"
                 /\ publishedFrom(probe.accessories, probe.response.records[1])

\* C8 (amended): a response is rejected exactly when its success member is
\* not truthy, its code is not the string "0", or it carries no data record.
\* Any other response whose first record is an object is normalized from that
\* record and published; one whose first record is null fails the cycle and
\* publishes nothing.
C8_RejectedIffNoSuccessOrCodeOrNoRecord ==
    probe.op = "cycle"
      => /\ probe.outcome = "rejected"
              <=> \/ ~Truthy(probe.response.success)
                  \/ probe.response.code # Str("0")
                  \/ noRecord(probe.response)
         /\ probe.outcome # "rejected"
              => IF probe.response.records[1].isNull
                 THEN /\ probe.outcome = "failed"
                      /\ probe.updated = {}
                      /\ probe.accessories = FreshAccessories
                 ELSE /\ probe.outcome = "published"
                      /\ publishedFrom(probe.accessories, probe.response.records[1])
                      /\ probe.updated # {}

\* A response with success true and two records is rejected for its code.
C8_Witness ==
    /\ probe.op = "cycle"
    /\ probe.response.success = Bool(TRUE)
    /\ probe.response.code = Num(Fin(0))
    /\ Len(probe.response.records) = 2
    /\ probe.outcome = "rejected"

\* C9 (as stated): safe(n, f) is the number n parses to when that number is
\* finite, and f otherwise: never NaN, never an infinity unless f is one.
C9_SafeFiniteOrFallback ==
    probe.op = "safe"
      => IF IsFinite(ToNumber(probe.n))
         THEN probe.out = ToNumber(probe.n)
         ELSE probe.out = probe.f

\* C10: gridImport and gridExport are never negative and never both positive;
\* with f the grid flow of the record, gridImport alone is positive when
\* f < 0, gridExport alone when f > 0, and both are 0 when f is 0 or no number.
C10_GridOneDirection ==
    probe.op = "grid"
      => LET f == ToNumber(probe.psum)
             import == probe.gridImport
             export == probe.gridExport
         IN  /\ ~JsLess(import, Fin(0)) /\ ~IsNaN(import)
             /\ ~JsLess(export, Fin(0)) /\ ~IsNaN(export)
             /\ ~(JsLess(Fin(0), import) /\ JsLess(Fin(0), export))
             /\ JsLess(f, Fin(0)) => (JsLess(Fin(0), import) /\ export = Fin(0))
             /\ JsLess(Fin(0), f) => (JsLess(Fin(0), export) /\ import = Fin(0))
             /\ (f = Fin(0) \/ IsNaN(f)) => (import = Fin(0) /\ export = Fin(0))

\* A record with psum -0.4 has been normalised to 400 W of import.
C10_Witness ==
    /\ probe.op = "grid"
    /\ probe.psum = Num(Fin(-8000))
    /\ probe.gridImport = Whole(400)
    /\ probe.gridExport = Fin(0)

numericRecord(r) ==
    \A x \in {r.power, r.batteryPower, r.psum, r.familyLoadPower, r.batteryPercent,
              r.dayEnergy} :
      x.t = "number" /\ IsFinite(x.n)

\* The magnitude of psum when it has the given sign, and 0 otherwise.
flowPart(psum, positive) ==
    IF (IF positive THEN JsLess(Fin(0), psum.n) ELSE JsLess(psum.n, Fin(0)))
    THEN JsAbs(psum.n)
    ELSE Fin(0)

C13_PercentWithinHundred ==
    (probe.op = "publish" /\ probe.idTag = "batteryPercent")
      => /\ ~JsLess(probe.stored, Fin(0))
         /\ ~JsLess(Whole(100), probe.stored)
         /\ JsLess(Whole(100), probe.v) => probe.stored = Whole(100)
         /\ JsLess(probe.v, Fin(0)) => probe.stored = Fin(0)

\* C13 (amended): batteryPercent is stored like every other metric: every
\* stored value lies in [0.0001, 100000]; a value of 0 or below is stored as
\* 0.0001, a finite value above 100000 as 100000, and any other finite value,
\* those above 100 included, unchanged.
C13_PercentWithinLightRange ==
    (probe.op = "publish" /\ probe.idTag = "batteryPercent")
      => /\ IsFinite(probe.stored)
         /\ probe.stored.v >= LightFloor
         /\ probe.stored.v <= LightCeiling
         /\ IsFinite(probe.v)
              => probe.stored.v =
                   (IF probe.v.v < LightFloor THEN LightFloor
                    ELSE IF probe.v.v > LightCeiling THEN LightCeiling
                    ELSE probe.v.v)

\* A battery percentage of 101 has been stored as 101.
C13_Witness ==
    /\ probe.op = "publish"
    /\ probe.idTag = "batteryPercent"
    /\ probe.raw = Num(Fin(2020000))
    /\ probe.stored = Fin(2020000)

\* C14: safeUpdate calls updateValue for a metric exactly when the adjusted
\* value differs from the value the service holds, so a cycle that publishes
\* the response the previous cycle published writes nothing.
C14_WritesOnlyChanges ==
    [][ inflight' = inflight - 1
          => /\ \A i \in MetricIndex :
                  LET id == publisherUuid(config.deviceId.s, metrics[i].idTag)
                  IN  id \in DOMAIN accessories
                        => (metrics[i].idTag \in last'.updated
                              <=> accessories'[id].services # accessories[id].services)
             /\ ( /\ last.outcome = "published"
                  /\ last'.outcome = "published"
                  /\ last'.response = last.response )
                  => last'.updated = {} ]_vars

\* The second of two cycles that published the same record wrote nothing.
C14_Witness ==
    /\ cycles >= 2
    /\ inflight = 0
    /\ last.outcome = "published"
    /\ last.response = Good(itemNight)
    /\ last.updated = {}

\* C15: in a publish pass, a metric without an accessory in the map, or whose
\* accessory has no LightSensor service, gets nothing written and raises no
\* error, and every other metric is written in the same pass.
C15_MissingAccessorySkipped ==
    probe.op = "pass"
      => /\ probe.outcome = "published"
         /\ DOMAIN probe.accessories = DOMAIN probe.before
         /\ \A i \in MetricIndex :
              LET tag == metrics[i].idTag
                  id == publisherUuid("d1", tag)
              IN  IF tag \in probe.missing
                  THEN id \notin DOMAIN probe.accessories /\ tag \notin probe.updated
                  ELSE IF tag \in probe.bare
                  THEN /\ probe.accessories[id] = probe.before[id]
                       /\ tag \notin probe.updated
                  ELSE /\ lightLevel(probe.accessories[id], tag)
                            = safeValueOf(numericOf(dataMap(probe.r)[tag]))
                       /\ tag \in probe.updated
                            <=> lightLevel(probe.before[id], tag)
                                  # lightLevel(probe.accessories[id], tag)

\* A pass without the accessory of the first metric, and without the service
\* of another, has written the metrics after them.
C15_Witness ==
    /\ probe.op = "pass"
    /\ probe.missing = {"pvPower", "dayPvEnergy"}
    /\ probe.bare = {"gridImport"}
    /\ probe.r = itemDay
    /\ {"batteryPercent", "houseLoad", "dayHouseLoadEnergy"} \subseteq probe.updated

\* C16 (as stated): initialiseAccessories for device d never unregisters or
\* removes a restored accessory whose identifier was derived from another
\* device identifier.
C16_OtherDevicesKept ==
    reconciled > 0
      => \A a \in hostCache :
           a.UUID[2] # config.deviceId.s
             => /\ a.UUID \notin unregistered
                /\ a.UUID \in hostRegistered
                /\ a.UUID \in DOMAIN accessories

\* C17 (as stated): when a host operation throws inside ensureAccessory for
\* one metric, reconciliation still processes every other metric of the
\* registry and still performs the retirement pass.
C17_FailureIsolated ==
    (probe.op = "reconcile" /\ probe.threw)
      => /\ \A i \in MetricIndex \ {probe.k} :
              LET id == reconcilerUuid("d1", metrics[i].idTag)
              IN  /\ id \in DOMAIN probe.st.accessories
                  /\ lightLevel(probe.st.accessories[id], metrics[i].idTag) # NaN
         /\ DOMAIN probe.st.accessories \subseteq registryIdentifiers("d1")

\* C18 (as stated): a restored accessory of a metric that lacks the
\* LightSensor service of the metric's subtype comes out of reconciliation
\* with its identifier, not registered again, and with exactly the
\* descriptive service and one LightSensor service of the metric's subtype.
C18_RepairLeavesOneRepresentation ==
    reconciled > 0
      => \A a \in hostCache :
           ( /\ a.UUID \in registryIdentifiers(config.deviceId.s)
             /\ lightLevel(a, a.UUID[3]) = NaN )
             => /\ a.UUID \in DOMAIN accessories
                /\ accessories[a.UUID].UUID = a.UUID
                /\ \A i \in 1..Len(registered) : registered[i] # a.UUID
                /\ Len(accessories[a.UUID].services) = 2
                /\ accessories[a.UUID].services[1].type = "AccessoryInformation"
                /\ accessories[a.UUID].services[2].type = "LightSensor"
                /\ accessories[a.UUID].services[2].subtype = a.UUID[3]

\* C19: each cycle hands exactly one request to fetch and a failed cycle sends
\* nothing more: the requests sent are as many as the cycles started, never
\* more than the timer ticks plus the start-up cycle.
C19_OneRequestPerCycle ==
    /\ Len(requests) = cycles
    /\ Len(requests) <= 1 + ticks
    /\ inflight <= Len(requests)
    /\ \A i \in 1..Len(requests) :
         requests[i].url = <<DefaultBaseUrl, StationDetailList>>

\* The start-up cycle has failed and, no tick having come, its request is
\* still the only one.
C19_Witness ==
    /\ last.outcome = "failed"
    /\ last.cause = "network"
    /\ inflight = 0
    /\ ticks = 0
    /\ Len(requests) = 1

\* C20 (as stated): at most one request is in flight in every reachable
\* state, whatever the configured interval.
C20_OneRequestInFlight == inflight <= 1

\* C21: every error inside a poll cycle (fetch rejected by a network error or
\* the timeout, a non-2xx status, a body that is not JSON, an exception after
\* the response) ends in the handler's catch: the step that ends a cycle
\* changes nothing of the schedule, the timer stays armed after it, and the
\* next tick starts one new cycle that hands one new request to fetch.
C21_FailedCycleKeepsPolling ==
    [][ /\ (inflight' = inflight - 1)
            => /\ timerArmed' /\ timerArmed
               /\ ticks' = ticks /\ cycles' = cycles /\ requests' = requests
               /\ launched' = launched /\ reconciled' = reconciled
        /\ (last.outcome = "failed" /\ launched) => timerArmed
        /\ (ticks' = ticks + 1)
            => /\ cycles' = cycles + 1
               /\ Len(requests') = Len(requests) + 1
               /\ requests'[Len(requests')].url = <<DefaultBaseUrl, StationDetailList>>
               /\ inflight' = inflight + 1
               /\ timerArmed' ]_vars

\* With the default interval, the start-up cycle failed on the timeout, and
\* the tick after it has started the second cycle, whose request is pending.
C21_Witness ==
    /\ ~canOverlap(config)
    /\ last.outcome = "failed"
    /\ last.cause = "timeout"
    /\ timerArmed
    /\ ticks = 1
    /\ cycles = 2
    /\ Len(requests) = 2
    /\ inflight = 1

\* C22: every request sent is a POST whose Content-MD5 header is the hash of
\* exactly the body sent, and whose Authorization header is "API", the
\* configured key and the signature, the signature being the keyed hash,
\* under the configured secret, of the canonical string made of POST, the
\* Content-MD5 header, the content type, the Date header and the path the
\* request is posted to.
C22_RequestSigned ==
    \A i \in 1..Len(requests) :
        LET req == requests[i]
            canonical == <<"POST", req.contentMD5, "application/json", req.date,
                           req.url[2]>>
            signature == <<"hmac-sha1-base64", config.apiSecret, canonical>>
        IN  /\ req.method = "POST"
            /\ req.body = <<"JSON", [deviceId |-> config.deviceId]>>
            /\ req.contentMD5 = <<"md5-base64", req.body>>
            /\ req.authorization = <<"API", config.apiKey, signature>>

\* Three requests have been sent at three different times, so with three
\* different Date headers and three different signatures.
C22_Witness ==
    /\ Len(requests) = 3
    /\ requests[1].date # requests[2].date
    /\ requests[2].date # requests[3].date
    /\ requests[1].authorization # requests[2].authorization
    /\ requests[2].authorization # requests[3].authorization
    /\ requests[1].contentMD5 = requests[3].contentMD5

\* C23 (as stated): the timer runs on the configured apiInterval, in seconds,
\* on 300 seconds when none is configured, and two consecutive scheduled
\* cycles are never closer together than that interval.
C23_IntervalAsConfigured ==
    probe.op = "timer" =>
        LET interval == IF probe.apiInterval \in {Undefined, Null}
                        THEN Whole(DefaultInterval)
                        ELSE ToNumber(probe.apiInterval)
        IN  /\ Fin(probe.delayMs * StepsPerMs) = interval
            /\ ~JsLess(Fin(probe.gapMs * StepsPerMs), interval)

\* C24: reconciliation of every metric, the retirement pass included, is
\* over before the first request is sent and before any publish: as soon as
\* a cycle has started the accessory map holds exactly the registry's
\* identifiers, each with its LightSensor service; and from then on no step
\* adds or removes a key of the accessory map.
C24_ReconciledBeforePolling ==
    [][ /\ (cycles' > 0 \/ requests' # <<>> \/ inflight' > 0)
            => /\ reconciled' = 1
               /\ DOMAIN accessories' = registryIdentifiers(config.deviceId.s)
               /\ \A i \in MetricIndex :
                     LET uuid == reconcilerUuid(config.deviceId.s, metrics[i].idTag)
                     IN  /\ accessories'[uuid].UUID = uuid
                         /\ ~IsNaN(lightLevel(accessories'[uuid], metrics[i].idTag))
        /\ (reconciled = 1)
            => /\ reconciled' = 1
               /\ DOMAIN accessories' = DOMAIN accessories ]_vars

\* The host restored obsolete and stale accessories, reconciliation retired
\* and repaired them, and a cycle has since published into the map.
C24_Witness ==
    /\ hostCache = {cachedObsolete, cachedOtherDevice, cachedStale}
    /\ reconciled = 1
    /\ unregistered # {}
    /\ last.outcome = "published"
    /\ last.updated # {}
    /\ DOMAIN accessories = registryIdentifiers(config.deviceId.s)

\* How many times the identifier uuid was handed to registerPlatformAccessories.
timesRegistered(uuid) ==
    Cardinality({ k \in 1..Len(registered) : registered[k] = uuid })

\* C27: after reconciliation, every metric that the host did not restore has
\* one accessory in the accessory map under its identifier, named after the
\* metric, with the serial number made of the device identifier and the
\* metric's identifier and with the metric's LightSensor service, and it was
\* registered with the host exactly once; an accessory the host restored was
\* not registered again, and nothing else was registered.
C27_NewAccessoryRegisteredOnce ==
    reconciled > 0
      => /\ \A i \in MetricIndex :
              LET metric == metrics[i]
                  d == config.deviceId.s
                  uuid == reconcilerUuid(d, metric.idTag)
                  a == accessories[uuid]
              IN  /\ uuid \in DOMAIN accessories
                  /\ IF uuid \in delivered
                     THEN timesRegistered(uuid) = 0
                     ELSE /\ timesRegistered(uuid) = 1
                          /\ uuid \in hostRegistered
                          /\ a.UUID = uuid
                          /\ a.displayName = metric.name
                          /\ Len(a.services) = 2
                          /\ a.services[1] = InformationService(metric.name,
                                                                <<d, metric.idTag>>)
                          /\ a.services[2].type = "LightSensor"
                          /\ a.services[2].subtype = metric.idTag
                          /\ a.services[2].name = metric.name
         /\ \A k \in 1..Len(registered) :
              registered[k] \in registryIdentifiers(config.deviceId.s) \ delivered

\* The host restored two of the registry's accessories, one of them stale;
\* reconciliation created and registered the other eleven.
C27_Witness ==
    /\ hostCache = {cachedStale, cachedValid}
    /\ reconciled = 1
    /\ Len(registered) = Len(metrics) - 2
    /\ timesRegistered(cachedStale.UUID) = 0
    /\ timesRegistered(<<"solis", "d1", "houseLoad">>) = 1

\* C28: a poll tick never re-runs reconciliation: neither the step that
\* starts a cycle on a timer tick nor the step that ends a cycle calls
\* initialiseAccessories, creates, registers or unregisters an accessory, or
\* changes the key set of the accessory map or the host's registered set.
C28_TickDoesNotReconcile ==
    [][ (ticks' = ticks + 1 \/ cycles' = cycles + 1 \/ inflight' = inflight - 1)
            => /\ (launched => reconciled' = reconciled)
               /\ (launched => DOMAIN accessories' = DOMAIN accessories)
               /\ (launched => hostRegistered' = hostRegistered)
               /\ (launched => registered' = registered)
               /\ (launched => unregistered' = unregistered)
               /\ reconciled' <= 1 ]_vars

\* Two ticks have come and three cycles have ended, the last with a publish,
\* after a reconciliation that created, registered and unregistered.
C28_Witness ==
    /\ ticks = 2
    /\ cycles = 3
    /\ inflight = 0
    /\ reconciled = 1
    /\ last.outcome = "published"
    /\ registered # <<>>
    /\ unregistered # {}

\* What of an accessory is identity and structure: its identifier, its name,
\* whether it has a history service, and its services without their values.
shapeOf(a) ==
    [UUID |-> a.UUID, displayName |-> a.displayName,
     historyService |-> a.historyService,
     services |-> [i \in 1..Len(a.services) |->
                     [type |-> a.services[i].type, subtype |-> a.services[i].subtype,
                      name |-> a.services[i].name, serial |-> a.services[i].serial]]]

\* C29: the publisher changes only the value a representation holds: after
\* reconciliation no step, so no publish pass, adds or removes an accessory
\* or a service of an accessory, or changes an accessory's identifier, name,
\* history service, or the type, subtype, name or serial number of a service.
C29_PublishKeepsStructure ==
    [][ launched
          => /\ DOMAIN accessories' = DOMAIN accessories
             /\ \A u \in DOMAIN accessories :
                  shapeOf(accessories'[u]) = shapeOf(accessories[u]) ]_vars

\* A publish pass has written values and logged history entries into
\* accessories of which one was restored with leftover services.
C29_Witness ==
    /\ cachedStale \in hostCache
    /\ last.outcome = "published"
    /\ "gridImport" \in last.updated
    /\ last.logged # {}
    /\ \E u \in DOMAIN accessories :
         \E i \in 1..Len(accessories[u].services) :
            /\ accessories[u].services[i].type = "LightSensor"
            /\ accessories[u].services[i].value = Whole(400)

\* The value the publisher last gave the metric idTag: the value of the
\* service of the metric's accessory that getServiceBySubtype selects.
publishedValue(acc, deviceId, idTag, subtypeAware) ==
    LET a == acc[publisherUuid(deviceId, idTag)]
    IN  a.services[getServiceBySubtype(a, idTag, subtypeAware)].value

\* Every metric's published value is the one derived from the record r.
derivedFrom(acc, deviceId, subtypeAware, r) ==
    \A i \in MetricIndex :
        publishedValue(acc, deviceId, metrics[i].idTag, subtypeAware)
          = safeValueOf(numericOf(dataMap(r)[metrics[i].idTag]))

\* C25: publish passes never interleave, even when two cycles overlap: in
\* every state after reconciliation the accessories are either as
\* reconciliation left them or the published values of all metrics derive
\* from one single response record, never from a mix of two records.
C25_OneSnapshotPublished ==
    reconciled > 0
      => \/ accessories
              = initialiseAccessories(restored(hostCache), config.deviceId.s).accessories
         \/ \E r \in Items :
              derivedFrom(accessories, config.deviceId.s, hostAware, r)

\* Two cycles overlapped: with one tick and two cycles, the one that ended
\* first published the record without timestamp after the tick (its history
\* entry carries the time of the tick), and the one that ended last
\* published the day record, whose values are the ones now stored.
C25_Witness ==
    /\ canOverlap(config)
    /\ hostCache = {}
    /\ ticks = 1
    /\ cycles = 2
    /\ inflight = 0
    /\ last.outcome = "published"
    /\ last.response = Good(itemDay)
    /\ accessories[<<"solis", "d1", "pvPower">>].logging
          = Whole((ClockStartMs + TickStepMs) \div KiloFactor)
    /\ derivedFrom(accessories, config.deviceId.s, hostAware, itemDay)
    /\ ~derivedFrom(accessories, config.deviceId.s, hostAware, itemOdd)

\* C26 (as stated): when a cycle has published the snapshot S, every metric
\* whose accessory has the metric's own representation, the LightSensor
\* service of the metric's subtype, has in it the clamped value of S's value
\* for the metric.
C26_StoredIsAdjustedSnapshot ==
    [][ (inflight' = inflight - 1 /\ last'.outcome = "published")
          => \A i \in MetricIndex :
               LET idTag == metrics[i].idTag
                   uuid == publisherUuid(config.deviceId.s, idTag)
                   S == dataMap(last'.response.records[1])
               IN  (uuid \in DOMAIN accessories'
                      /\ ~IsNaN(lightLevel(accessories'[uuid], idTag)))
                   => lightLevel(accessories'[uuid], idTag)
                        = safeValueOf(numericOf(S[idTag])) ]_vars

\* C30 (as stated): the timestamp used for a cycle is the current time when
\* the record's dataTimestamp is undefined, null, empty or not numeric, and
\* the dataTimestamp's number otherwise.
C30_TimestampDefaultsToNow ==
    probe.op = "timestamp"
      => LET ts == probe.r.dataTimestamp
         IN  IF ts \in {Undefined, Null, Str("")} \/ IsNaN(ToNumber(ts))
             THEN probe.dataTimestampMillis = probe.now
             ELSE probe.dataTimestampMillis = ToNumber(ts)

\* C31: the outcomes of the cloud client can be told apart.  A timeout or a
\* network error is a FetchError thrown by fetch; a status outside 200-299
\* is an Error thrown with the message HTTP, status, status text; a response
\* with success false or without records is returned and stopped at the
\* guard.  The three differ in what is logged, and none of them publishes.
C31_FailuresDistinguished ==
    probe.op = "request"
      => LET fetched == probe.fetched
             result == probe.result
             transport == fetched.kind = "rejected"
             http == fetched.kind = "resolved" /\ ~resOk(fetched.status)
             application == /\ fetched.kind = "resolved"
                            /\ resOk(fetched.status)
                            /\ fetched.json
                            /\ (~Truthy(fetched.response.success)
                                  \/ noRecord(fetched.response))
         IN  /\ transport
                 => /\ result.kind = "throw"
                    /\ result.name = "FetchError"
                    /\ result.type = fetched.type
                    /\ probe.log[1] = "error"
                    /\ probe.log[3] = "FetchError"
             /\ http
                 => /\ result.kind = "throw"
                    /\ result.name = "Error"
                    /\ result.message = <<"HTTP", fetched.status, fetched.statusText>>
                    /\ probe.log[1] = "error"
                    /\ probe.log[5][2] = fetched.status
             /\ application
                 => /\ result.kind = "return"
                    /\ probe.outcome = "rejected"
                    /\ probe.log[1] = "warn"
             /\ (transport \/ http \/ application)
                 => /\ probe.outcome # "published"
                    /\ probe.updated = {}
                    /\ probe.accessories = FreshAccessories

\* The cloud answered 429 with a body that would have passed the guard: the
\* client threw the HTTP error with the status and nothing was published.
C31_Witness ==
    /\ probe.op = "request"
    /\ probe.fetched.status = 429
    /\ probe.fetched.json
    /\ probe.fetched.response = Good(itemDay)
    /\ probe.result.message = <<"HTTP", 429, "Too Many Requests">>
    /\ probe.outcome = "failed"
    /\ probe.updated = {}

\* C32: a response whose success member is true and that carries at least
\* one record is rejected, and nothing is published or written, whenever its
\* code is not exactly the string "0": absent, the number 0, the empty string
\* or another string; with the string "0" such a response is not rejected.
C32_RejectedUnlessCodeIsStringZero ==
    (probe.op = "cycle" /\ Truthy(probe.response.success) /\ ~noRecord(probe.response))
      => IF probe.response.code = Str("0")
         THEN probe.outcome # "rejected"
         ELSE /\ probe.outcome = "rejected"
              /\ probe.updated = {}
              /\ probe.accessories = FreshAccessories

\* A response with success true and one good record, but no code member, has
\* been rejected.
C32_Witness ==
    /\ probe.op = "cycle"
    /\ probe.response.success = Bool(TRUE)
    /\ probe.response.code = Undefined
    /\ probe.response.records = <<itemDay>>
    /\ probe.outcome = "rejected"
    /\ probe.accessories = FreshAccessories

\* The last logged time the publisher reads: context.logging[idTag] || 0.
lastTimeOf(a) == IF IsNaN(a.logging) \/ a.logging = Fin(0) THEN Fin(0) ELSE a.logging

\* C33: on every step that ends a cycle, a metric gets at most one history
\* entry, only if it is graphed and the cycle's entry time is strictly
\* greater than the last logged time stored for it, and the stored time is
\* then the entry's time; otherwise the stored time is unchanged.  So the
\* stored time never decreases, the entries of a metric have strictly
\* increasing times, and a cycle with the same or an older data timestamp
\* appends nothing.
C33_HistoryStrictlyNewer ==
    [][ (inflight' = inflight - 1)
          => \A i \in MetricIndex :
               LET idTag == metrics[i].idTag
                   uuid == publisherUuid(config.deviceId.s, idTag)
                   a == accessories[uuid]
                   b == accessories'[uuid]
                   entries == { e \in last'.logged : e.idTag = idTag }
               IN  uuid \in DOMAIN accessories
                     => /\ Cardinality(entries) <= 1
                        /\ ~JsLess(b.logging, a.logging)
                        /\ \A e \in entries :
                              /\ metrics[i].graph
                              /\ last'.outcome = "published"
                              /\ e.time = entryTimeOf(
                                             safe(last'.response.records[1].dataTimestamp,
                                                  Fin(now * UnitsPerOne)))
                              /\ JsLess(lastTimeOf(a), e.time)
                              /\ b.logging = e.time
                        /\ (entries = {}) => b.logging = a.logging
                        /\ ( /\ last'.outcome = "published"
                             /\ ~JsLess(lastTimeOf(a),
                                        entryTimeOf(
                                          safe(last'.response.records[1].dataTimestamp,
                                               Fin(now * UnitsPerOne)))) )
                              => entries = {} ]_vars

\* The restored accessory of pvPower had 2 as its last logged time; a cycle
\* whose data timestamp is 2000 ms logged entries of time 2 for the new
\* accessories and none for pvPower, whose stored time is still 2.
C33_Witness ==
    /\ cachedValid \in hostCache
    /\ cycles = 1
    /\ last.outcome = "published"
    /\ last.response = Good(itemDay)
    /\ \A e \in last.logged : e.idTag # "pvPower" /\ e.time = Whole(2)
    /\ \E e \in last.logged : e.idTag = "houseLoad"
    /\ accessories[cachedValid.UUID].logging = Whole(2)
    /\ accessories[cachedValid.UUID].historyService
    /\ accessories[<<"solis", "d1", "houseLoad">>].logging = Whole(2)

\* C34: the live value is written on every successful cycle whatever the
\* data timestamp: after every step that ends a cycle with a publish, the
\* published value of every metric is the one of that cycle's record, also
\* when the cycle's history entries were skipped as not newer; updateValue
\* was called for exactly the metrics whose value differed.  With
\* overlapping cycles the values are those of the response that ended last.
C34_LiveValueFromLastCompleted ==
    [][ (inflight' = inflight - 1 /\ last'.outcome = "published")
          => LET d == config.deviceId.s
                 r == last'.response.records[1]
             IN  /\ derivedFrom(accessories', d, hostAware, r)
                 /\ \A i \in MetricIndex :
                      metrics[i].idTag \in last'.updated
                        <=> publishedValue(accessories, d, metrics[i].idTag, hostAware)
                              # publishedValue(accessories', d, metrics[i].idTag, hostAware) ]_vars

\* Two cycles overlapped.  The one that ended first published the record
\* without timestamp after the tick and logged entries with the time of the
\* tick; the one that ended last carried the older timestamp 2000 ms: its
\* history entries were all skipped and its values overwrote the others.
C34_Witness ==
    /\ canOverlap(config)
    /\ hostCache = {}
    /\ ticks = 1
    /\ cycles = 2
    /\ inflight = 0
    /\ last.outcome = "published"
    /\ last.response = Good(itemDay)
    /\ last.logged = {}
    /\ "batteryPercent" \in last.updated
    /\ \A i \in MetricIndex :
         metrics[i].graph
           => accessories[publisherUuid("d1", metrics[i].idTag)].logging
                = Whole((ClockStartMs + TickStepMs) \div KiloFactor)
    /\ lightLevel(accessories[<<"solis", "d1", "batteryPercent">>], "batteryPercent")
          = Whole(42)

\* C35: once initialiseAccessories has returned, and in every later state,
\* the key set of the accessory map is exactly the set of identifiers the
\* metric registry gives this device: one key per metric, none missing, none
\* extra, each key holding the accessory of that identifier.
C35_KeysAreRegistryIdentifiers ==
    reconciled > 0
      => /\ DOMAIN accessories = validUUIDs(config.deviceId.s)
         /\ Cardinality(DOMAIN accessories) = Len(metrics)
         /\ \A uuid \in DOMAIN accessories : accessories[uuid].UUID = uuid

\* The host had restored an accessory of a dropped metric, one of another
\* device and a stale one; reconciliation is over, two ticks have come and
\* three cycles have ended.
C35_Witness ==
    /\ hostCache = {cachedObsolete, cachedOtherDevice, cachedStale}
    /\ reconciled = 1
    /\ ticks = 2
    /\ cycles = 3
    /\ inflight = 0
    /\ cachedObsolete.UUID \notin DOMAIN accessories
    /\ cachedOtherDevice.UUID \notin DOMAIN accessories
    /\ cachedStale.UUID \in DOMAIN accessories

\* C36 (as stated): after reconciliation every value the publisher writes
\* goes to the LightSensor service whose subtype is the metric's identifier,
\* on the metric's own accessory: a service whose value a step changes is
\* the service of that subtype of the accessory of a metric of the registry.
C36_WrittenToOwnRepresentation ==
    [][ launched
          => \A uuid \in DOMAIN accessories :
               \A k \in 1..Len(accessories[uuid].services) :
                 accessories'[uuid].services[k].value # accessories[uuid].services[k].value
                   => \E i \in MetricIndex :
                        /\ uuid = publisherUuid(config.deviceId.s, metrics[i].idTag)
                        /\ accessories[uuid].services[k].type = "LightSensor"
                        /\ accessories[uuid].services[k].subtype = metrics[i].idTag ]_vars
====
